---- MODULE Spec2Model ----
(***************************************************************************)
(* The retrieval-augmented-generation request pipeline of                  *)
(* src/app/api/chat/route.ts (POST /api/chat): validation, connection      *)
(* checkout, session resolution, embedding with local fallback, retrieval, *)
(* hybrid ranking, re-ranking, citation building, synthesis, persistence   *)
(* and the response, with the try / catch / finally of the handler.        *)
(*                                                                         *)
(* One behaviour is one execution of the handler on one request.  Every    *)
(* external collaborator (request body, pool, session store, embedding     *)
(* service, datastore query, generative model) answers nondeterministically*)
(* from a small set of replies.                                            *)
(*                                                                         *)
(* Text is run-length encoded: a string is a sequence of runs              *)
(* [ws |-> BOOLEAN, n |-> length], whitespace and non-whitespace runs      *)
(* alternating, so that strings of 2000 and 2001 characters are ordinary   *)
(* values.  Scores are exact rationals [num, den] with den > 0.            *)
(* Embedding elements are integers in units of 1/255.                      *)
(***************************************************************************)
EXTENDS Integers, Sequences, FiniteSets, TLC

VARIABLES
    body,              \* the request body as req.json() delivers it
    openai,            \* module configuration: a generative client exists
    pc,                \* the handler's position
    question,          \* the trimmed question
    client,            \* TRUE while the handler holds a pooled connection
    poolCheckedOut,    \* connections of the pool currently checked out
    released,          \* number of client.release() calls
    sessions,          \* chat_sessions rows (ids)
    titles,            \* chat_sessions.title, per row
    messages,          \* messages rows, in insertion order
    links,             \* message_citations rows
    sessionId,         \* the session the request resolved to (0: none yet)
    questionEmbedding, \* the vector embedWithVoyage returned
    queryVector,       \* the vector handed to retrieveRelevantChunks
    rows,              \* the retrieved rows
    topRankedHybrid,   \* hybridRank(...).slice(0, 5)
    topRanked,         \* the re-ranked list, sorted
    citations,         \* buildCitations(...)
    answer,            \* the synthesized answer
    usedLlm,           \* askLlmWithContext's usedLlm flag
    response,          \* what the handler returns
    calls,             \* external calls issued, per collaborator
    failedAt,          \* the step that threw ("" when none did)
    embedReply,        \* the reply the embedding service gave
    rerankOutcome,     \* how the re-rank call ended
    trace,             \* the steps run so far, in order
    inFlight,          \* the external calls issued and not yet answered
    fn,                \* the function under study ("POST" for the handler)
    arg,               \* its arguments
    result,            \* what it returned
    page,              \* the chat page: its React state
    net,               \* the chat page: its requests in flight and sent so far
    reqs,              \* concurrent chat requests against one store
    now                \* the server's clock, in milliseconds

vars == << body, openai, pc, question, client, poolCheckedOut, released,
           sessions, titles, messages, links, sessionId, questionEmbedding,
           queryVector, rows, topRankedHybrid, topRanked, citations, answer,
           usedLlm, response, calls, failedAt, embedReply, rerankOutcome,
           trace, inFlight, fn, arg, result, page, net, reqs, now >>

-----------------------------------------------------------------------------
(* Bounds of the model *)

\* longest request text, in runs
MaxRuns == 3
\* configured embedding dimensionality (EMBEDDING_DIMENSIONS of the deployment)
EMBEDDING_DIMENSIONS == 3
\* bytes of the digest the fallback embedding cycles over
HashLen == 2
\* most entries of a re-rank reply
MaxItems == 2

(* Program constants *)

MAX_QUESTION_LENGTH == 2000
RetrieveLimit == 10
TopN == 5

-----------------------------------------------------------------------------
(* Text *)

RECURSIVE StrLen(_)
StrLen(s) == IF s = << >> THEN 0 ELSE Head(s).n + StrLen(Tail(s))

\* String.prototype.trim: leading and trailing whitespace removed
Trim(s) ==
    LET a == IF s # << >> /\ Head(s).ws THEN Tail(s) ELSE s
    IN  IF a # << >> /\ a[Len(a)].ws THEN SubSeq(a, 1, Len(a) - 1) ELSE a

\* run lengths the request text is drawn from
TextRunLens == {1, MAX_QUESTION_LENGTH, MAX_QUESTION_LENGTH + 1}
SpaceRunLens == {1}

\* the strings of at most k runs, starting with whitespace or not
StringsOf(k) ==
    UNION { { [i \in 1..n |->
                 IF (i % 2 = 1) = first
                 THEN [ws |-> TRUE, n |-> w[i]]
                 ELSE [ws |-> FALSE, n |-> f[i]]] :
              f \in [1..n -> TextRunLens], w \in [1..n -> SpaceRunLens],
              first \in BOOLEAN } : n \in 0..k }

-----------------------------------------------------------------------------
(* The inbound request *)

ExistingSession == 1
UnknownSession == 7
NoSession == 0

\* json = FALSE: req.json() rejects.  qtype is the JavaScript type of
\* body.question ("undefined" also stands for a body that is not an object).
Bodies ==
    { [json |-> FALSE, qtype |-> "undefined", q |-> << >>,
       sessionId |-> NoSession, newSession |-> FALSE] }
    \cup
    { [json |-> TRUE, qtype |-> t, q |-> << >>,
       sessionId |-> NoSession, newSession |-> FALSE] :
         t \in {"undefined", "number"} }
    \cup
    { [json |-> TRUE, qtype |-> "string", q |-> s,
       sessionId |-> sid, newSession |-> ns] :
         s \in StringsOf(MaxRuns),
         sid \in {NoSession, ExistingSession, UnknownSession},
         ns \in BOOLEAN }

\* the question taken as sent, without trim()
QuestionOfNoTrim(b) == IF b.qtype = "string" THEN b.q ELSE << >>

\* route.ts 431-432: typeof rawQuestion === 'string' ? rawQuestion.trim() : ''
QuestionOf(b) == IF b.qtype = "string" THEN Trim(b.q) ELSE << >>

\* route.ts 434: !question
IsEmptyQuestion(q) == StrLen(q) = 0

\* the length test off by one
IsTooLongOffByOne(q) == StrLen(q) > MAX_QUESTION_LENGTH + 1

\* route.ts 441: question.length > MAX_QUESTION_LENGTH
IsTooLongQuestion(q) == StrLen(q) > MAX_QUESTION_LENGTH

\* route.ts 422-446: the 400 response of a request, "" when it passes
ValidationError(b) ==
    IF ~b.json THEN "Invalid JSON body"
    ELSE IF IsEmptyQuestion(QuestionOf(b)) THEN "Question is required"
    ELSE IF IsTooLongQuestion(QuestionOf(b)) THEN "Question is too long"
    ELSE ""

-----------------------------------------------------------------------------
(* Embedding provider *)

\* stand-in for crypto.createHash('sha256').update(text).digest(): some
\* fixed function of the text to HashLen bytes
Digest(text) ==
    [i \in 1..HashLen |-> (StrLen(text) * 31 + Len(text) * 7 + i * 97) % 256]

\* a fallback embedding that also depends on how many calls came before
generateLocalEmbeddingSeeded(text) ==
    LET hash == Digest(text)
        seed == IF result = [applied |-> FALSE] THEN 0 ELSE 1
    IN  [i \in 1..EMBEDDING_DIMENSIONS |->
            2 * ((hash[((i - 1) % Len(hash)) + 1] + seed) % 256) - 255]

\* route.ts 61-73; element i (0-based) is hash[i % hash.length] mapped by
\* (byte / 255) * 2 - 1, kept in units of 1/255
generateLocalEmbedding(text) ==
    LET hash == Digest(text)
    IN  [i \in 1..EMBEDDING_DIMENSIONS |-> 2 * hash[((i - 1) % Len(hash)) + 1] - 255]

\* truncation without the zero padding
FitDimensionsNoPad(embedding) ==
    IF Len(embedding) > EMBEDDING_DIMENSIONS THEN SubSeq(embedding, 1, EMBEDDING_DIMENSIONS) ELSE embedding

\* route.ts 122-132: truncate or zero-pad to EMBEDDING_DIMENSIONS
FitDimensions(embedding) ==
    IF Len(embedding) = EMBEDDING_DIMENSIONS THEN embedding
    ELSE IF Len(embedding) > EMBEDDING_DIMENSIONS THEN SubSeq(embedding, 1, EMBEDDING_DIMENSIONS)
    ELSE embedding \o [i \in 1..(EMBEDDING_DIMENSIONS - Len(embedding)) |-> 0]

\* the vector of n elements the service returns: element i is i
ServiceVector(n) == [i \in 1..n |-> i]

\* what fetch() and res.json() deliver.  status 0: fetch rejects.
\* data: "none" (json.data missing or not an array), "empty" (data = []),
\* "invalid" (data[0].embedding is not an array), "vector".
EmbedReplies ==
    { [status |-> st, data |-> "none", len |-> 0] : st \in {0, 401, 402, 429, 500} }
    \cup
    { [status |-> 200, data |-> d, len |-> 0] : d \in {"none", "empty", "invalid"} }
    \cup
    { [status |-> 200, data |-> "vector", len |-> n] : n \in {0, EMBEDDING_DIMENSIONS - 1, EMBEDDING_DIMENSIONS, EMBEDDING_DIMENSIONS + 1} }

\* res.ok
ResOk(status) == status >= 200 /\ status <= 299

\* the fallback taken on every error status
IsFallbackStatusAnyError(status) == status >= 400

\* route.ts 96: the statuses that fall back to the local embedding
IsFallbackStatus(status) == status = 429 \/ status = 402

\* route.ts 75-134: [threw, value] of embedWithVoyage(texts) on reply res
embedWithVoyage(texts, res) ==
    IF res.status = 0 THEN [threw |-> TRUE, value |-> << >>]
    ELSE IF ~ResOk(res.status)
    THEN IF IsFallbackStatus(res.status)
         THEN [threw |-> FALSE,
               value |-> [i \in 1..Len(texts) |-> generateLocalEmbedding(texts[i])]]
         ELSE [threw |-> TRUE, value |-> << >>]
    ELSE IF res.data = "none" \/ res.data = "invalid"
    THEN [threw |-> TRUE, value |-> << >>]
    ELSE IF res.data = "empty" THEN [threw |-> FALSE, value |-> << >>]
    ELSE [threw |-> FALSE, value |-> << FitDimensions(ServiceVector(res.len)) >>]

-----------------------------------------------------------------------------
(* Exact rationals, kept in lowest terms with a positive denominator *)

RECURSIVE Gcd(_, _)
Gcd(a, b) == IF b = 0 THEN a ELSE Gcd(b, a % b)

Abs(n) == IF n < 0 THEN -n ELSE n

Rat(n, d) ==
    LET g == Gcd(Abs(n), d)
    IN  IF n = 0 THEN [num |-> 0, den |-> 1] ELSE [num |-> n \div g, den |-> d \div g]

RatAdd(a, b) == Rat(a.num * b.den + b.num * a.den, a.den * b.den)
RatSub(a, b) == Rat(a.num * b.den - b.num * a.den, a.den * b.den)
RatMul(a, b) == Rat(a.num * b.num, a.den * b.den)
RatLess(a, b) == a.num * b.den < b.num * a.den
RatOne == [num |-> 1, den |-> 1]

\* a sort by non-increasing key that puts the later of two equal keys first
SortDescUnstable(s, keys) ==
    LET pos(i) == 1 + Cardinality({ j \in 1..Len(s) :
                        \/ RatLess(keys[i], keys[j])
                        \/ (j > i /\ keys[j] = keys[i]) })
    IN  [p \in 1..Len(s) |-> s[CHOOSE i \in 1..Len(s) : pos(i) = p]]

\* Array.prototype.sort with the comparator (a, b) => key(b) - key(a): the
\* stable sort by non-increasing key, keys[i] being the key of s[i].
\* Element i lands after every element with a larger key and every earlier
\* element with an equal key.
SortDescBy(s, keys) ==
    LET pos(i) == 1 + Cardinality({ j \in 1..Len(s) :
                        \/ RatLess(keys[i], keys[j])
                        \/ (j < i /\ keys[j] = keys[i]) })
    IN  [p \in 1..Len(s) |-> s[CHOOSE i \in 1..Len(s) : pos(i) = p]]

-----------------------------------------------------------------------------
(* Candidate retriever and hybrid ranker *)

\* most rows the datastore holds for a query in this model
MaxRows == 6

\* The corpus: chunk i belongs to document (i + 1) \div 2, so chunks 1 and 2
\* are of the same document.  Texts are named, not spelled out: the content
\* of chunk i is the text i, a document's slug and title are its number.
\* chunk-docs.mjs 96 skips empty chunks: every content is non-empty.
ChunkDocument(i) == (i + 1) \div 2
ChunkContent(i) == i
DocumentSlug(d) == d
DocumentTitle(d) == d

\* A retrieved row: id, distance (ascending over the result, ties allowed),
\* content, title and slug of the joined document, and lex, the raw BM25
\* score its title, heading and content get for the question.
RowAt(i, profile) ==
    [id |-> i, distance |-> i \div 2, content |-> ChunkContent(i),
     title |-> DocumentTitle(ChunkDocument(i)),
     slug |-> DocumentSlug(ChunkDocument(i)),
     lex |-> IF profile = "lexical" THEN i ELSE 0]

\* the result sets retrieveRelevantChunks can deliver (LIMIT RetrieveLimit)
RowSets ==
    { [i \in 1..n |-> RowAt(i, profile)] :
        n \in {k \in {0, 1, MaxRows} : k <= RetrieveLimit},
        profile \in {"lexical", "unrelated"} }

SeqMin(v) == CHOOSE x \in {v[i] : i \in 1..Len(v)} : \A j \in 1..Len(v) : x <= v[j]
SeqMax(v) == CHOOSE x \in {v[i] : i \in 1..Len(v)} : \A j \in 1..Len(v) : x >= v[j]

\* a normalisation that maps a constant list to 0
normalizeConstantZero(values) ==
    IF Len(values) = 0 THEN << >>
    ELSE IF SeqMax(values) = SeqMin(values)
         THEN [i \in 1..Len(values) |-> Rat(0, 1)]
         ELSE [i \in 1..Len(values) |->
                  Rat(values[i] - SeqMin(values), SeqMax(values) - SeqMin(values))]

\* hybrid.ts (part_004) 95-108
normalize(values) ==
    IF Len(values) = 0 THEN << >>
    ELSE IF SeqMax(values) = SeqMin(values)
         THEN [i \in 1..Len(values) |-> Rat(1, 2)]
         ELSE [i \in 1..Len(values) |->
                  Rat(values[i] - SeqMin(values), SeqMax(values) - SeqMin(values))]

\* the distinct tokens of a tokenized text
TermsOf(tokens) == { tokens[k] : k \in 1..Len(tokens) }

\* part_004 40-46: in how many documents the term occurs
docFreq(term, docs) ==
    Cardinality({ i \in 1..Len(docs) : term \in TermsOf(docs[i]) })

\* part_004 80-84: how often the term occurs in one document
termFreq(term, toks) == Cardinality({ k \in 1..Len(toks) : toks[k] = term })

\* part_004 70-85: the query terms that add to the score of document i
\* (df # 0 and tf # 0)
ScoringTerms(query, docs, i) ==
    { t \in TermsOf(query) : docFreq(t, docs) # 0 /\ termFreq(t, docs[i]) # 0 }

\* a BM25 that gives every document a positive score, matching or not
bm25ScoresSmoothed(query, docs, positive) ==
    [i \in 1..Len(docs) |-> positive[i]]

\* part_004 55-93 on tokenized texts.  A document with no scoring term keeps
\* the 0 the array is filled with; every scoring term adds
\* idf * tf * (k1 + 1) / denom, which is positive (idf is the logarithm of a
\* number above 1), so the sum is some positive number: positive[i].
bm25ScoresOfTexts(query, docs, positive) ==
    [i \in 1..Len(docs) |->
        IF ScoringTerms(query, docs, i) = {} THEN 0 ELSE positive[i]]

\* part_004 55-93: the raw BM25 score of each document for the query; the
\* text of a row is not modelled here, its score is read off the row
bm25Scores(query, chunks) == [i \in 1..Len(chunks) |-> chunks[i].lex]

\* a ranker that scores and does not sort
hybridRankUnsorted(query, chunks, alpha) ==
    IF Len(chunks) = 0 THEN << >>
    ELSE
    LET bm25 == bm25Scores(query, chunks)
        bm25Norm == normalize(bm25)
        distNorm == normalize([i \in 1..Len(chunks) |-> chunks[i].distance])
        vecSim == [i \in 1..Len(chunks) |-> RatSub(RatOne, distNorm[i])]
        finalScores == [i \in 1..Len(chunks) |->
                          RatAdd(RatMul(alpha, bm25Norm[i]),
                                 RatMul(RatSub(RatOne, alpha), vecSim[i]))]
    IN  [i \in 1..Len(chunks) |->
            [id |-> chunks[i].id, distance |-> chunks[i].distance,
             content |-> chunks[i].content,
             title |-> chunks[i].title, slug |-> chunks[i].slug,
             hybridScore |-> finalScores[i], bm25Score |-> bm25[i],
             bm25Norm |-> bm25Norm[i], vecSim |-> vecSim[i]]]

\* a ranker that weighs the vector similarity by alpha and BM25 by 1 - alpha
hybridRankWeightsSwapped(query, chunks, alpha) ==
    IF Len(chunks) = 0 THEN << >>
    ELSE
    LET bm25 == bm25Scores(query, chunks)
        bm25Norm == normalize(bm25)
        distNorm == normalize([i \in 1..Len(chunks) |-> chunks[i].distance])
        vecSim == [i \in 1..Len(chunks) |-> RatSub(RatOne, distNorm[i])]
        finalScores == [i \in 1..Len(chunks) |->
                          RatAdd(RatMul(alpha, vecSim[i]),
                                 RatMul(RatSub(RatOne, alpha), bm25Norm[i]))]
        withScores == [i \in 1..Len(chunks) |->
                          [id |-> chunks[i].id, distance |-> chunks[i].distance,
                           content |-> chunks[i].content,
                           title |-> chunks[i].title, slug |-> chunks[i].slug,
                           hybridScore |-> finalScores[i], bm25Score |-> bm25[i],
                           bm25Norm |-> bm25Norm[i], vecSim |-> vecSim[i]]]
    IN  SortDescBy(withScores, finalScores)

\* part_004 110-146
hybridRank(query, chunks, alpha) ==
    IF Len(chunks) = 0 THEN << >>
    ELSE
    LET bm25 == bm25Scores(query, chunks)
        bm25Norm == normalize(bm25)
        distNorm == normalize([i \in 1..Len(chunks) |-> chunks[i].distance])
        vecSim == [i \in 1..Len(chunks) |-> RatSub(RatOne, distNorm[i])]
        finalScores == [i \in 1..Len(chunks) |->
                          RatAdd(RatMul(alpha, bm25Norm[i]),
                                 RatMul(RatSub(RatOne, alpha), vecSim[i]))]
        withScores == [i \in 1..Len(chunks) |->
                          [id |-> chunks[i].id, distance |-> chunks[i].distance,
                           content |-> chunks[i].content,
                           title |-> chunks[i].title, slug |-> chunks[i].slug,
                           hybridScore |-> finalScores[i], bm25Score |-> bm25[i],
                           bm25Norm |-> bm25Norm[i], vecSim |-> vecSim[i]]]
    IN  SortDescBy(withScores, finalScores)

\* Array.prototype.slice(0, n)
Slice(s, n) == SubSeq(s, 1, IF Len(s) < n THEN Len(s) ELSE n)

\* route.ts 487: alpha = 0.6
Alpha == Rat(3, 5)

-----------------------------------------------------------------------------
(* Re-ranker *)

\* an id no retrieved chunk has
UnknownChunk == 99

\* One entry of the array the model replied: idIsString and scoreIsNumber
\* are the typeof tests of route.ts 239.
ReplyItems(candidates) ==
    LET first == candidates[1].id
        last == candidates[Len(candidates)].id
    IN  { [idIsString |-> TRUE, id |-> first, scoreIsNumber |-> TRUE, score |-> Rat(0, 1)],
          [idIsString |-> TRUE, id |-> last, scoreIsNumber |-> TRUE, score |-> Rat(9, 1)],
          [idIsString |-> TRUE, id |-> UnknownChunk, scoreIsNumber |-> TRUE, score |-> Rat(9, 1)],
          [idIsString |-> FALSE, id |-> first, scoreIsNumber |-> TRUE, score |-> Rat(9, 1)],
          [idIsString |-> TRUE, id |-> last, scoreIsNumber |-> FALSE, score |-> Rat(0, 1)] }

\* What generateText and JSON.parse deliver.  kind "throws": the call
\* rejects; "text": the reply is not parseable; "object": it parses to a
\* value that is not a list (for..of throws); "list": it parses to items.
RerankReplies(candidates) ==
    { [kind |-> k, items |-> << >>] : k \in {"throws", "text", "object"} }
    \cup
    UNION { { [kind |-> "list", items |-> it] :
                it \in [1..n -> ReplyItems(candidates)] } : n \in 0..MaxItems }

\* route.ts 237-242: the scores of the usable entries; a later entry for
\* the same id overwrites an earlier one
UsableIndexes(items) ==
    { i \in 1..Len(items) : items[i].idIsString /\ items[i].scoreIsNumber }

ScoredIds(items) == { items[i].id : i \in UsableIndexes(items) }

ScoreById(items, id) ==
    LET last == CHOOSE i \in UsableIndexes(items) :
                   /\ items[i].id = id
                   /\ \A j \in UsableIndexes(items) : items[j].id = id => j <= i
    IN  items[last].score

WithRerankScore(c, score) ==
    [id |-> c.id, distance |-> c.distance, content |-> c.content,
     title |-> c.title, slug |-> c.slug,
     hybridScore |-> c.hybridScore, bm25Score |-> c.bm25Score,
     bm25Norm |-> c.bm25Norm, vecSim |-> c.vecSim, rerankScore |-> score]

\* candidates.map((c) => ({ ...c, rerankScore: c.hybridScore }))
PassThrough(candidates) ==
    [i \in 1..Len(candidates) |-> WithRerankScore(candidates[i], candidates[i].hybridScore)]

\* The text of a reply, as the parser sees it: "[" and "]" are brackets,
\* "o" is an object {"id": ..., "score": ...} (with the comma that separates
\* it from its neighbour), "t" is any other text.
Tokens == {"[", "]", "o", "t"}

\* opening minus closing brackets among the first k tokens
Depth(s, k) ==
    Cardinality({ i \in 1..k : s[i] = "[" }) - Cardinality({ i \in 1..k : s[i] = "]" })

\* s opens with a bracket that its last token closes
IsBalancedArray(s) ==
    /\ Len(s) >= 2
    /\ s[1] = "["
    /\ Depth(s, Len(s)) = 0
    /\ \A k \in 1..(Len(s) - 1) : Depth(s, k) >= 1

\* JSON.parse accepts s as an array
IsJsonArray(s) == IsBalancedArray(s) /\ \A i \in 1..Len(s) : s[i] # "t"

\* the objects that are elements of the array s itself
TopLevelObjects(s) ==
    Cardinality({ i \in 1..Len(s) : s[i] = "o" /\ Depth(s, i) = 1 })

\* route.ts 236-242: JSON.parse, as far as the loop over the result sees it
JsonParse(s) ==
    IF IsJsonArray(s) THEN [kind |-> "list", objects |-> TopLevelObjects(s)]
    ELSE IF s = << "o" >> THEN [kind |-> "object", objects |-> 0]
    ELSE [kind |-> "text", objects |-> 0]

\* text.match(/\[[\s\S]*\]/): the match is greedy, it runs from the first
\* "[" to the last "]" of the text
HasMatch(text) ==
    \E i, j \in 1..Len(text) : i < j /\ text[i] = "[" /\ text[j] = "]"

\* route.ts 233-234
JsonTextOf(text) ==
    IF HasMatch(text)
    THEN LET i == CHOOSE a \in 1..Len(text) :
                     text[a] = "[" /\ \A b \in 1..(a - 1) : text[b] # "["
             j == CHOOSE a \in 1..Len(text) :
                     text[a] = "]" /\ \A b \in (a + 1)..Len(text) : text[b] # "]"
         IN  SubSeq(text, i, j)
    ELSE text

\* route.ts 230-236
parseReply(text) == JsonParse(JsonTextOf(text))

\* a re-ranker that scores a candidate 0 when the reply leaves it out
rerankWithLlmAbsentZero(configured, candidates, reply) ==
    IF ~configured THEN PassThrough(candidates)
    ELSE IF Len(candidates) = 0 THEN << >>
    ELSE IF reply.kind # "list" THEN PassThrough(candidates)
    ELSE IF ScoredIds(reply.items) = {} THEN PassThrough(candidates)
    ELSE [i \in 1..Len(candidates) |->
            WithRerankScore(candidates[i],
                IF candidates[i].id \in ScoredIds(reply.items)
                THEN ScoreById(reply.items, candidates[i].id)
                ELSE Rat(0, 1))]

\* a re-ranker that scores every candidate 0 when the reply is no list
rerankWithLlmZeroOnFailure(configured, candidates, reply) ==
    IF ~configured THEN PassThrough(candidates)
    ELSE IF Len(candidates) = 0 THEN << >>
    ELSE IF reply.kind # "list" \/ ScoredIds(reply.items) = {}
    THEN [i \in 1..Len(candidates) |-> WithRerankScore(candidates[i], Rat(0, 1))]
    ELSE [i \in 1..Len(candidates) |->
            WithRerankScore(candidates[i],
                IF candidates[i].id \in ScoredIds(reply.items)
                THEN ScoreById(reply.items, candidates[i].id)
                ELSE candidates[i].hybridScore)]

\* route.ts 187-257; configured is the module's openai client, reply the
\* outcome of the generative call (read only when the call is made)
rerankWithLlm(configured, candidates, reply) ==
    IF ~configured THEN PassThrough(candidates)
    ELSE IF Len(candidates) = 0 THEN << >>
    ELSE IF reply.kind # "list" THEN PassThrough(candidates)
    ELSE IF ScoredIds(reply.items) = {} THEN PassThrough(candidates)
    ELSE [i \in 1..Len(candidates) |->
            WithRerankScore(candidates[i],
                IF candidates[i].id \in ScoredIds(reply.items)
                THEN ScoreById(reply.items, candidates[i].id)
                ELSE candidates[i].hybridScore)]

\* a re-ranker that calls the model whether or not a client is configured
RerankCallsModelAlways(configured, candidates) == Len(candidates) > 0

\* route.ts 187-196 and 225: whether rerankWithLlm calls the model
RerankCallsModel(configured, candidates) == configured /\ Len(candidates) > 0

\* a final sort that keeps looking at the hybrid score
EffectiveScoreHybridOnly(c) == c.hybridScore

\* b.rerankScore ?? b.hybridScore
EffectiveScore(c) == c.rerankScore

-----------------------------------------------------------------------------
(* Citation builder and answer synthesizer *)

\* content.replace(/\s+/g, ' ').slice(0, 280): the excerpt of a text
Snippet(content) == [excerptOf |-> content]

\* `https://developer.mozilla.org/en-US/docs/${slug}`
MdnUrl(slug) == [docs |-> slug]

\* a citation builder that keeps one citation per source document
buildCitationsDedup(allRanked) ==
    LET keep == { i \in 1..Len(allRanked) :
                    \A j \in 1..(i - 1) : allRanked[j].slug # allRanked[i].slug }
        nth(p) == CHOOSE i \in keep : Cardinality({ j \in keep : j < i }) = p - 1
    IN  [p \in 1..Cardinality(keep) |->
            [id |-> allRanked[nth(p)].id,
             mdnUrl |-> MdnUrl(allRanked[nth(p)].slug),
             articleTitle |-> allRanked[nth(p)].title,
             excerpt |-> Snippet(allRanked[nth(p)].content),
             trustLevel |-> "direct",
             relevanceScore |-> allRanked[nth(p)].rerankScore]]

\* route.ts 300-324
buildCitations(allRanked) ==
    [i \in 1..Len(allRanked) |->
        [id |-> allRanked[i].id,
         mdnUrl |-> MdnUrl(allRanked[i].slug),
         articleTitle |-> allRanked[i].title,
         excerpt |-> Snippet(allRanked[i].content),
         trustLevel |-> "direct",
         relevanceScore |-> allRanked[i].rerankScore]]

GeneratedText == [src |-> "llm", id |-> 0]
NoChunksText == [src |-> "placeholder", id |-> 0]
ChunkText(id) == [src |-> "chunk", id |-> id]

\* route.ts 259-298 on a reply of the generative model that did not throw
askLlmWithContext(configured, ranked) ==
    IF ~configured
    THEN [answer |-> IF Len(ranked) > 0 THEN ChunkText(ranked[1].content) ELSE NoChunksText,
          usedLlm |-> FALSE]
    ELSE [answer |-> GeneratedText, usedLlm |-> TRUE]

-----------------------------------------------------------------------------
(* Session store *)

\* a fresh primary key (uuid defaultRandom): an id no row has
NewId(used) == 1 + CHOOSE m \in used \cup {UnknownSession} :
                      \A x \in used \cup {UnknownSession} : x <= m

\* a resolution that ignores the newSession flag
CreatesWithoutLookupIgnoresFlag(b) == b.sessionId = NoSession

\* route.ts 328: the branch that creates a session without looking one up
CreatesWithoutLookup(b) == b.newSession \/ b.sessionId = NoSession

\* String.prototype.slice(0, n) on runs
RECURSIVE StrSlice(_, _)
StrSlice(s, n) ==
    IF s = << >> \/ n <= 0 THEN << >>
    ELSE IF Head(s).n >= n THEN << [Head(s) EXCEPT !.n = n] >>
    ELSE << Head(s) >> \o StrSlice(Tail(s), n - Head(s).n)

\* route.ts 330 and 352: question.slice(0, 80) || 'New chat session'
TITLE_LENGTH == 80
DefaultTitle == << [ws |-> FALSE, n |-> 3], [ws |-> TRUE, n |-> 1],
                   [ws |-> FALSE, n |-> 4], [ws |-> TRUE, n |-> 1],
                   [ws |-> FALSE, n |-> 7] >>
TitleOf(q) == IF StrSlice(q, TITLE_LENGTH) = << >> THEN DefaultTitle
              ELSE StrSlice(q, TITLE_LENGTH)

\* the title of the session the store starts with
InitialTitles == { [id |-> ExistingSession, title |-> << [ws |-> FALSE, n |-> 1] >>] }

\* route.ts 350: the looked-up session does not exist
SessionMissing(rowsFound) == rowsFound = {}

\* GET /api/session (part_000) 78-94: the relevanceScore of every citation
\* rebuilt from the store
HistoryRelevanceScore == Rat(9, 10)

\* GET /api/session (part_000) 35-95: the citations of one message, rebuilt
\* from message_citations joined with chunks and documents.  The query
\* orders by message only, so the citations of a message are a set here.
HistoryCitations(messageId) ==
    { [id |-> l.chunkId,
       mdnUrl |-> MdnUrl(DocumentSlug(ChunkDocument(l.chunkId))),
       articleTitle |-> DocumentTitle(ChunkDocument(l.chunkId)),
       excerpt |-> Snippet(ChunkContent(l.chunkId)),
       trustLevel |-> "direct",
       relevanceScore |-> HistoryRelevanceScore] :
      l \in { x \in links : x.messageId = messageId } }

-----------------------------------------------------------------------------
(* Responses of the handler *)

NoAnswer == [src |-> "none", id |-> 0]

NoResponse ==
    [status |-> 0, error |-> "", answer |-> NoAnswer, citations |-> << >>, sessionId |-> NoSession]

ErrorResponse(status, error) ==
    [status |-> status, error |-> error, answer |-> NoAnswer, citations |-> << >>,
     sessionId |-> NoSession]

\* route.ts 466-473
NoCandidatesResponse ==
    ErrorResponse(404, "No relevant MDN content found to answer this question.")

\* route.ts 541-549
TryAgainResponse ==
    ErrorResponse(500, "Unexpected error while processing your question. Please try again or refine your query.")

\* an exception that leaves POST: the framework answers, not the handler
UncaughtResponse == ErrorResponse(500, "uncaught exception")

\* route.ts 536-540
AnswerResponse(a, c, sid) ==
    [status |-> 200, error |-> "", answer |-> a, citations |-> c, sessionId |-> sid]

\* the empty-result test left out
IsNoCandidatesNever(r) == FALSE

\* route.ts 466: !rows.length
IsNoCandidates(r) == Len(r) = 0

NoCalls ==
    [pool |-> 0, sessionSelect |-> 0, sessionInsert |-> 0, embed |-> 0,
     retrieve |-> 0, llm |-> 0, write |-> 0]

NoEmbedReply == [status |-> -1, data |-> "none", len |-> 0]

NoArg == [none |-> TRUE]
NoPage == [none |-> TRUE]
NoNet == [none |-> TRUE]
NotApplied == [applied |-> FALSE]

-----------------------------------------------------------------------------
(* The handler, step by step *)

Init ==
    /\ body \in Bodies
    /\ openai \in BOOLEAN
    /\ pc = "Validate"
    /\ question = << >>
    /\ client = FALSE
    /\ poolCheckedOut = 0
    /\ released = 0
    /\ sessions = {ExistingSession}
    /\ titles = InitialTitles
    /\ messages = << >>
    /\ links = {}
    /\ sessionId = NoSession
    /\ questionEmbedding = << >>
    /\ queryVector = << >>
    /\ rows = << >>
    /\ topRankedHybrid = << >>
    /\ topRanked = << >>
    /\ citations = << >>
    /\ answer = NoAnswer
    /\ usedLlm = FALSE
    /\ response = NoResponse
    /\ calls = NoCalls
    /\ failedAt = ""
    /\ embedReply = NoEmbedReply
    /\ rerankOutcome = "none"
    /\ trace = << >>
    /\ inFlight = {}
    /\ fn = "POST"
    /\ arg = NoArg
    /\ result = NotApplied
    /\ page = NoPage
    /\ net = NoNet
    /\ reqs = << >>
    /\ now = 0

pipelineVars ==
    << questionEmbedding, queryVector, rows, topRankedHybrid, topRanked,
       citations, answer, usedLlm, embedReply, rerankOutcome >>
storeVars == << sessions, titles, messages, links >>
poolVars == << client, poolCheckedOut, released >>
fnVars == << fn, arg, result >>
pageVars == << page, net >>
serverVars == << reqs, now >>

\* the call is not awaited: its promise stays pending while the handler goes on
AwaitDropped(call) == inFlight' = inFlight

\* const x = await f(...): the handler goes on when the call has answered
Await(call) == inFlight' = inFlight \ {call}

\* f(...) is called: the request goes out
Issue(call) == inFlight' = inFlight \cup {call}

\* route.ts 420-446
Validate ==
    /\ pc = "Validate"
    /\ trace' = Append(trace, "Validate")
    /\ IF ValidationError(body) # ""
       THEN /\ response' = ErrorResponse(400, ValidationError(body))
            /\ pc' = "Done"
            /\ UNCHANGED question
       ELSE /\ question' = QuestionOf(body)
            /\ pc' = "Connect"
            /\ UNCHANGED response
    /\ UNCHANGED << fnVars, pageVars, serverVars, inFlight, body, openai, poolVars, storeVars, sessionId, pipelineVars,
                    calls, failedAt >>

\* route.ts 451: pool.connect(), before the try block
Connect ==
    /\ pc = "Connect"
    /\ trace' = Append(trace, "Connect")
    /\ calls' = [calls EXCEPT !.pool = @ + 1]
    /\ \E ok \in BOOLEAN :
         IF ok
         THEN /\ client' = TRUE
              /\ poolCheckedOut' = poolCheckedOut + 1
              /\ pc' = "Session"
              /\ UNCHANGED << response, failedAt >>
         ELSE /\ response' = UncaughtResponse
              /\ failedAt' = "Connect"
              /\ pc' = "Done"
              /\ UNCHANGED << client, poolCheckedOut >>
    /\ UNCHANGED << fnVars, pageVars, serverVars, inFlight, body, openai, question, released, storeVars, sessionId,
                    pipelineVars >>

\* route.ts 455 and 326-367: getOrCreateSessionId
Session ==
    /\ pc = "Session"
    /\ trace' = Append(trace, "Session")
    /\ \E selectOk \in BOOLEAN, insertOk \in BOOLEAN :
         LET lookup == ~CreatesWithoutLookup(body)
             found == IF lookup /\ selectOk
                      THEN {x \in sessions : x = body.sessionId} ELSE {}
             inserts == IF lookup THEN selectOk /\ SessionMissing(found) ELSE TRUE
             threw == (lookup /\ ~selectOk) \/ (inserts /\ ~insertOk)
             fresh == NewId(sessions)
         IN  /\ calls' = [calls EXCEPT
                            !.sessionSelect = @ + (IF lookup THEN 1 ELSE 0),
                            !.sessionInsert = @ + (IF inserts THEN 1 ELSE 0)]
             /\ IF threw
                THEN /\ pc' = "Catch"
                     /\ failedAt' = "Session"
                     /\ UNCHANGED << sessions, titles, sessionId >>
                ELSE /\ pc' = "Embed"
                     /\ sessions' = IF inserts THEN sessions \cup {fresh} ELSE sessions
                     /\ titles' = IF inserts
                                  THEN titles \cup {[id |-> fresh, title |-> TitleOf(question)]}
                                  ELSE titles
                     /\ sessionId' = IF inserts THEN fresh ELSE body.sessionId
                     /\ UNCHANGED failedAt
    /\ UNCHANGED << fnVars, pageVars, serverVars, inFlight, body, openai, question, poolVars, messages, links,
                    pipelineVars, response >>

\* route.ts 458 and 76: embedWithVoyage is called, the fetch goes out
EmbedCall ==
    /\ pc = "Embed"
    /\ calls' = [calls EXCEPT !.embed = @ + 1]
    /\ Issue("embed")
    /\ pc' = "EmbedWait"
    /\ UNCHANGED << fnVars, pageVars, serverVars, body, openai, question, poolVars, storeVars,
                    sessionId, pipelineVars, response, failedAt, trace >>

\* route.ts 458-461: the service has answered
Embed ==
    /\ pc = "EmbedWait"
    /\ trace' = Append(trace, "Embed")
    /\ Await("embed")
    /\ \E res \in EmbedReplies :
         LET out == embedWithVoyage(<< question >>, res)
         IN  /\ embedReply' = res
             /\ IF out.threw \/ Len(out.value) = 0
                THEN /\ pc' = "Catch"
                     /\ failedAt' = "Embed"
                     /\ UNCHANGED questionEmbedding
                ELSE /\ pc' = "Retrieve"
                     /\ questionEmbedding' = out.value[1]
                     /\ UNCHANGED failedAt
    /\ UNCHANGED << fnVars, pageVars, serverVars, body, openai, question, poolVars, storeVars,
                    sessionId, queryVector, rows, topRankedHybrid, topRanked,
                    citations, answer, usedLlm, rerankOutcome, response, calls >>

\* route.ts 464 and 143: the similarity query goes out
RetrieveCall ==
    /\ pc = "Retrieve"
    /\ calls' = [calls EXCEPT !.retrieve = @ + 1]
    /\ queryVector' = questionEmbedding
    /\ Issue("retrieve")
    /\ pc' = "RetrieveWait"
    /\ UNCHANGED << fnVars, pageVars, serverVars, body, openai, question, poolVars, storeVars,
                    sessionId, questionEmbedding, rows, topRankedHybrid,
                    topRanked, citations, answer, usedLlm, embedReply,
                    rerankOutcome, response, failedAt, trace >>

\* route.ts 464-473 and 136-163: the datastore has answered
Retrieve ==
    /\ pc = "RetrieveWait"
    /\ trace' = Append(trace, "Retrieve")
    /\ Await("retrieve")
    /\ \/ /\ pc' = "Catch"
          /\ failedAt' = "Retrieve"
          /\ UNCHANGED << rows, response >>
       \/ \E r \in RowSets :
            /\ rows' = r
            /\ IF IsNoCandidates(r)
               THEN /\ response' = NoCandidatesResponse
                    /\ pc' = "Finally"
               ELSE /\ pc' = "Rank"
                    /\ UNCHANGED response
            /\ UNCHANGED failedAt
    /\ UNCHANGED << fnVars, pageVars, serverVars, body, openai, question, poolVars, storeVars,
                    sessionId, questionEmbedding, queryVector, topRankedHybrid,
                    topRanked, citations, answer, usedLlm, embedReply,
                    rerankOutcome, calls >>

\* route.ts 476-488
Rank ==
    /\ pc = "Rank"
    /\ trace' = Append(trace, "Rank")
    /\ topRankedHybrid' = Slice(hybridRank(question, rows, Alpha), TopN)
    /\ pc' = "Rerank"
    /\ UNCHANGED << fnVars, pageVars, serverVars, inFlight, body, openai, question, poolVars, storeVars, sessionId,
                    questionEmbedding, queryVector, rows, topRanked, citations,
                    answer, usedLlm, embedReply, rerankOutcome, response, calls,
                    failedAt >>

\* the log line a reply of the re-rank call leaves
RerankOutcomeOf(called, reply) ==
    IF ~called THEN "skipped"
    ELSE IF reply.kind # "list" THEN reply.kind
    ELSE IF ScoredIds(reply.items) = {} THEN "unusable"
    ELSE "scored"

\* route.ts 491 and 225: rerankWithLlm calls generateText
RerankCall ==
    /\ pc = "Rerank"
    /\ RerankCallsModel(openai, topRankedHybrid)
    /\ calls' = [calls EXCEPT !.llm = @ + 1]
    /\ Issue("rerank")
    /\ pc' = "RerankWait"
    /\ UNCHANGED << fnVars, pageVars, serverVars, body, openai, question, poolVars, storeVars,
                    sessionId, pipelineVars, response, failedAt, trace >>

\* route.ts 491-494: rerankWithLlm returns, after the model has answered
\* when it was called, and the result is sorted
Rerank ==
    /\ \/ pc = "RerankWait"
       \/ pc = "Rerank" /\ ~RerankCallsModel(openai, topRankedHybrid)
    /\ trace' = Append(trace, "Rerank")
    /\ Await("rerank")
    /\ LET called == pc = "RerankWait"
       IN  /\ UNCHANGED calls
           /\ \E reply \in IF called THEN RerankReplies(topRankedHybrid)
                                      ELSE {[kind |-> "throws", items |-> << >>]} :
                /\ LET reranked == rerankWithLlm(openai, topRankedHybrid, reply)
                   IN  topRanked' = SortDescBy(reranked,
                          [i \in 1..Len(reranked) |-> EffectiveScore(reranked[i])])
                /\ rerankOutcome' = RerankOutcomeOf(called, reply)
    /\ pc' = "BuildCitations"
    /\ UNCHANGED << fnVars, pageVars, serverVars, body, openai, question, poolVars, storeVars, sessionId,
                    questionEmbedding, queryVector, rows, topRankedHybrid,
                    citations, answer, usedLlm, embedReply, response, failedAt >>

\* route.ts 496
BuildCitations ==
    /\ pc = "BuildCitations"
    /\ trace' = Append(trace, "BuildCitations")
    /\ citations' = buildCitations(topRanked)
    /\ pc' = "Synthesize"
    /\ UNCHANGED << fnVars, pageVars, serverVars, inFlight, body, openai, question, poolVars, storeVars, sessionId,
                    questionEmbedding, queryVector, rows, topRankedHybrid,
                    topRanked, answer, usedLlm, embedReply, rerankOutcome,
                    response, calls, failedAt >>

\* route.ts 499 and 287: askLlmWithContext calls generateText
SynthesizeCall ==
    /\ pc = "Synthesize"
    /\ openai
    /\ calls' = [calls EXCEPT !.llm = @ + 1]
    /\ Issue("synthesize")
    /\ pc' = "SynthesizeWait"
    /\ UNCHANGED << fnVars, pageVars, serverVars, body, openai, question, poolVars, storeVars,
                    sessionId, pipelineVars, response, failedAt, trace >>

\* a synthesis step that calls the model again when the call fails
SynthesizeRetry ==
    /\ \/ pc = "SynthesizeWait"
       \/ pc = "Synthesize" /\ ~openai
    /\ trace' = Append(trace, "Synthesize")
    /\ Await("synthesize")
    /\ UNCHANGED calls
    /\ \E ok \in IF openai THEN BOOLEAN ELSE {TRUE} :
         IF ok
         THEN /\ answer' = askLlmWithContext(openai, topRanked).answer
              /\ usedLlm' = askLlmWithContext(openai, topRanked).usedLlm
              /\ pc' = "PersistUser"
         ELSE /\ pc' = "Synthesize"
              /\ UNCHANGED << answer, usedLlm >>
    /\ UNCHANGED << fnVars, pageVars, serverVars, body, openai, question, poolVars, storeVars, sessionId,
                    questionEmbedding, queryVector, rows, topRankedHybrid,
                    topRanked, citations, embedReply, rerankOutcome, response,
                    failedAt >>

\* route.ts 499-511: askLlmWithContext returns or throws, after the model
\* has answered when it was called
Synthesize ==
    /\ \/ pc = "SynthesizeWait"
       \/ pc = "Synthesize" /\ ~openai
    /\ trace' = Append(trace, "Synthesize")
    /\ Await("synthesize")
    /\ UNCHANGED calls
    /\ \E ok \in IF openai THEN BOOLEAN ELSE {TRUE} :
         IF ok
         THEN /\ answer' = askLlmWithContext(openai, topRanked).answer
              /\ usedLlm' = askLlmWithContext(openai, topRanked).usedLlm
              /\ pc' = "PersistUser"
              /\ UNCHANGED failedAt
         ELSE /\ pc' = "Catch"
              /\ failedAt' = "Synthesize"
              /\ UNCHANGED << answer, usedLlm >>
    /\ UNCHANGED << fnVars, pageVars, serverVars, body, openai, question, poolVars, storeVars, sessionId,
                    questionEmbedding, queryVector, rows, topRankedHybrid,
                    topRanked, citations, embedReply, rerankOutcome, response >>

MessageIds == { messages[i].id : i \in 1..Len(messages) }

\* a db write that rejects: the exception reaches the handler's catch
WriteFails(step) ==
    /\ calls' = [calls EXCEPT !.write = @ + 1]
    /\ pc' = "Catch"
    /\ failedAt' = step
    /\ UNCHANGED << storeVars, trace >>

\* route.ts 516 and 378-387: the user message
PersistUser ==
    /\ pc = "PersistUser"
    /\ \/ /\ calls' = [calls EXCEPT !.write = @ + 1]
          /\ messages' = Append(messages,
                [id |-> NewId(MessageIds), sessionId |-> sessionId,
                 role |-> "user", content |-> question])
          /\ pc' = "PersistAssistant"
          /\ UNCHANGED << sessions, titles, links, failedAt >>
       \/ /\ calls' = [calls EXCEPT !.write = @ + 1]
          /\ pc' = "Catch"
          /\ failedAt' = "PersistUser"
          /\ UNCHANGED storeVars
    /\ trace' = Append(trace, "Persist")
    /\ UNCHANGED << fnVars, pageVars, serverVars, inFlight, body, openai, question, poolVars, sessionId, pipelineVars,
                    response >>

\* route.ts 389-398: the assistant message
PersistAssistant ==
    /\ pc = "PersistAssistant"
    /\ \/ /\ calls' = [calls EXCEPT !.write = @ + 1]
          /\ messages' = Append(messages,
                [id |-> NewId(MessageIds), sessionId |-> sessionId,
                 role |-> "assistant", content |-> answer])
          /\ pc' = "PersistLinks"
          /\ UNCHANGED << sessions, titles, links, failedAt >>
       \/ WriteFails("PersistAssistant")
    /\ UNCHANGED << fnVars, pageVars, serverVars, inFlight, body, openai, question, poolVars, sessionId, pipelineVars,
                    response, trace >>

\* route.ts 400-408: the citation links of the assistant message
PersistLinks ==
    /\ pc = "PersistLinks"
    /\ IF Len(citations) > 0
       THEN \/ /\ calls' = [calls EXCEPT !.write = @ + 1]
               /\ links' = links \cup
                    { [messageId |-> messages[Len(messages)].id,
                       chunkId |-> citations[i].id] : i \in 1..Len(citations) }
               /\ pc' = "PersistTouch"
               /\ UNCHANGED << sessions, titles, messages, failedAt >>
            \/ WriteFails("PersistLinks")
       ELSE /\ pc' = "PersistTouch"
            /\ UNCHANGED << storeVars, calls, failedAt >>
    /\ UNCHANGED << fnVars, pageVars, serverVars, inFlight, body, openai, question, poolVars, sessionId, pipelineVars,
                    response, trace >>

\* route.ts 410-414: the session's updatedAt
PersistTouch ==
    /\ pc = "PersistTouch"
    /\ \/ /\ calls' = [calls EXCEPT !.write = @ + 1]
          /\ pc' = "Respond"
          /\ UNCHANGED << storeVars, failedAt >>
       \/ WriteFails("PersistTouch")
    /\ UNCHANGED << fnVars, pageVars, serverVars, inFlight, body, openai, question, poolVars, sessionId, pipelineVars,
                    response, trace >>

\* route.ts 523-540
Respond ==
    /\ pc = "Respond"
    /\ trace' = Append(trace, "Respond")
    /\ response' = AnswerResponse(answer, citations, sessionId)
    /\ pc' = "Finally"
    /\ UNCHANGED << fnVars, pageVars, serverVars, inFlight, body, openai, question, poolVars, storeVars, sessionId,
                    pipelineVars, calls, failedAt >>

\* a catch block that still returns an answer that was already computed
CatchKeepsAnswer ==
    /\ pc = "Catch"
    /\ trace' = Append(trace, "Catch")
    /\ response' = IF answer # NoAnswer
                   THEN AnswerResponse(answer, citations, sessionId)
                   ELSE TryAgainResponse
    /\ pc' = "Finally"
    /\ UNCHANGED << fnVars, pageVars, serverVars, inFlight, body, openai, question, poolVars, storeVars, sessionId,
                    pipelineVars, calls, failedAt >>

\* route.ts 541-549
Catch ==
    /\ pc = "Catch"
    /\ trace' = Append(trace, "Catch")
    /\ response' = TryAgainResponse
    /\ pc' = "Finally"
    /\ UNCHANGED << fnVars, pageVars, serverVars, inFlight, body, openai, question, poolVars, storeVars, sessionId,
                    pipelineVars, calls, failedAt >>

\* the release left out
ReleaseForgotten == UNCHANGED << client, poolCheckedOut, released >>

\* route.ts 550-552: client.release()
Release ==
    /\ client' = FALSE
    /\ poolCheckedOut' = poolCheckedOut - 1
    /\ released' = released + 1

Finally ==
    /\ pc = "Finally"
    /\ trace' = Append(trace, "Finally")
    /\ Release
    /\ pc' = "Done"
    /\ UNCHANGED << fnVars, pageVars, serverVars, inFlight, body, openai, question, storeVars, sessionId, pipelineVars,
                    response, calls, failedAt >>

Next ==
    \/ Validate
    \/ Connect
    \/ Session
    \/ EmbedCall
    \/ Embed
    \/ RetrieveCall
    \/ Retrieve
    \/ Rank
    \/ RerankCall
    \/ Rerank
    \/ BuildCitations
    \/ SynthesizeCall
    \/ Synthesize
    \/ PersistUser
    \/ PersistAssistant
    \/ PersistLinks
    \/ PersistTouch
    \/ Respond
    \/ Catch
    \/ Finally

Spec == Init /\ [][Next]_vars

-----------------------------------------------------------------------------
(* The ranker, the re-ranker and the reply parser as functions of their
   arguments *)

\* longest candidate list handed to hybridRank
MaxCands == 3
\* longest reply text, in tokens
MaxTokens == 5

Distances == {0, 1, 2}
LexScores == {0, 1, 2}
Alphas == {Rat(0, 1), Rat(1, 4), Rat(1, 2), Rat(3, 5), Rat(1, 1)}

\* a candidate as retrieveRelevantChunks hands it over, with distance d and
\* raw BM25 score l; its id is its place in the list
CandidateWith(i, d, l) ==
    [id |-> i, distance |-> d, content |-> ChunkContent(i),
     title |-> DocumentTitle(ChunkDocument(i)),
     slug |-> DocumentSlug(ChunkDocument(i)), lex |-> l]

CandidateLists(n) ==
    { [i \in 1..n |-> CandidateWith(i, d[i], l[i])] :
        d \in [1..n -> Distances], l \in [1..n -> LexScores] }

HybridRankArgs ==
    { [query |-> << >>, chunks |-> c, alpha |-> a] :
        c \in UNION { CandidateLists(n) : n \in 0..MaxCands }, a \in Alphas }

\* the lists the handler hands to the re-ranker
RankedLists ==
    { Slice(hybridRank(<< >>, r, Alpha), TopN) : r \in RowSets \ { << >> } }

RerankArgs ==
    UNION { { [configured |-> c, candidates |-> k, reply |-> r] :
                c \in BOOLEAN, r \in RerankReplies(k) } : k \in RankedLists }

ReplyTexts == UNION { [1..n -> Tokens] : n \in 0..MaxTokens }

ParseArgs == { [text |-> t] : t \in ReplyTexts }

\* two calls of generateLocalEmbedding, one after the other
EmbeddingArgs ==
    { [texts |-> << t, u >>] : t \in StringsOf(2), u \in StringsOf(2) }

NormalizeValues == {-1, 0, 1, 3}

NormalizeArgs ==
    { [values |-> v] : v \in UNION { [1..n -> NormalizeValues] : n \in 0..MaxCands } }

\* tokenized queries and candidate texts (title, heading and content of a
\* candidate joined, part_004 121-124)
Queries ==
    { << >>, << "closure" >>, << "flexbox" >>, << "function", "grid" >> }
DocTexts ==
    { << "closure", "function" >>, << "grid" >>, << "function", "function" >> }
TextDistances == {0, 1}
TextAlphas == {Rat(3, 5), Rat(1, 1)}

\* the positive scores the matching documents of a list of n get
PositiveScores(n) == { [i \in 1..n |-> 1], [i \in 1..n |-> i] }

TextRankArgs ==
    UNION { { [query |-> q, docs |-> t, distances |-> d, positive |-> w,
               alpha |-> a] :
                q \in Queries, t \in [1..n -> DocTexts],
                d \in [1..n -> TextDistances], w \in PositiveScores(n),
                a \in TextAlphas } : n \in 1..MaxCands }

\* the candidates of a text-level argument, scored by bm25ScoresOfTexts
TextCandidates(a) ==
    [i \in 1..Len(a.docs) |->
        CandidateWith(i, a.distances[i],
                      bm25ScoresOfTexts(a.query, a.docs, a.positive)[i])]

handlerVars ==
    << body, openai, pc, question, poolVars, storeVars, sessionId,
       pipelineVars, response, calls, failedAt, trace, inFlight >>

InitFn ==
    /\ fn \in {"hybridRank", "rerankWithLlm", "parseReply", "normalize",
               "hybridRankOfTexts", "generateLocalEmbedding"}
    /\ arg \in CASE fn = "hybridRank" -> HybridRankArgs
                 [] fn = "rerankWithLlm" -> RerankArgs
                 [] fn = "parseReply" -> ParseArgs
                 [] fn = "normalize" -> NormalizeArgs
                 [] fn = "hybridRankOfTexts" -> TextRankArgs
                 [] fn = "generateLocalEmbedding" -> EmbeddingArgs
    /\ result = NotApplied
    /\ page = NoPage
    /\ net = NoNet
    /\ reqs = << >>
    /\ now = 0
    /\ body = CHOOSE b \in Bodies : ~b.json
    /\ openai = FALSE
    /\ pc = "Done"
    /\ question = << >>
    /\ client = FALSE
    /\ poolCheckedOut = 0
    /\ released = 0
    /\ sessions = {ExistingSession}
    /\ titles = InitialTitles
    /\ messages = << >>
    /\ links = {}
    /\ sessionId = NoSession
    /\ questionEmbedding = << >>
    /\ queryVector = << >>
    /\ rows = << >>
    /\ topRankedHybrid = << >>
    /\ topRanked = << >>
    /\ citations = << >>
    /\ answer = NoAnswer
    /\ usedLlm = FALSE
    /\ response = NoResponse
    /\ calls = NoCalls
    /\ failedAt = ""
    /\ embedReply = NoEmbedReply
    /\ rerankOutcome = "none"
    /\ trace = << >>
    /\ inFlight = {}

ApplyHybridRank ==
    /\ fn = "hybridRank"
    /\ ~result.applied
    /\ result' = [applied |-> TRUE,
                  value |-> hybridRank(arg.query, arg.chunks, arg.alpha)]
    /\ UNCHANGED << fn, arg, handlerVars, pageVars, serverVars >>

ApplyRerankWithLlm ==
    /\ fn = "rerankWithLlm"
    /\ ~result.applied
    /\ result' = [applied |-> TRUE,
                  value |-> rerankWithLlm(arg.configured, arg.candidates, arg.reply)]
    /\ UNCHANGED << fn, arg, handlerVars, pageVars, serverVars >>

ApplyParseReply ==
    /\ fn = "parseReply"
    /\ ~result.applied
    /\ result' = [applied |-> TRUE, value |-> parseReply(arg.text)]
    /\ UNCHANGED << fn, arg, handlerVars, pageVars, serverVars >>

ApplyNormalize ==
    /\ fn = "normalize"
    /\ ~result.applied
    /\ result' = [applied |-> TRUE, value |-> normalize(arg.values)]
    /\ UNCHANGED << fn, arg, handlerVars, pageVars, serverVars >>

\* hybridRank on candidates whose BM25 scores come from their texts
ApplyHybridRankOfTexts ==
    /\ fn = "hybridRankOfTexts"
    /\ ~result.applied
    /\ result' = [applied |-> TRUE,
                  value |-> hybridRank(arg.query, TextCandidates(arg), arg.alpha)]
    /\ UNCHANGED << fn, arg, handlerVars, pageVars, serverVars >>

\* the first call, then the second one; the function reads its argument only
ApplyGenerateLocalEmbedding ==
    /\ fn = "generateLocalEmbedding"
    /\ ~result.applied
    /\ IF result = NotApplied
       THEN result' = [applied |-> FALSE,
                       value |-> << generateLocalEmbedding(arg.texts[1]) >>]
       ELSE result' = [applied |-> TRUE,
                       value |-> Append(result.value,
                                        generateLocalEmbedding(arg.texts[2]))]
    /\ UNCHANGED << fn, arg, handlerVars, pageVars, serverVars >>

NextFn ==
    \/ ApplyGenerateLocalEmbedding
    \/ ApplyHybridRank
    \/ ApplyRerankWithLlm
    \/ ApplyParseReply
    \/ ApplyNormalize
    \/ ApplyHybridRankOfTexts

SpecFn == InitFn /\ [][NextFn]_vars

-----------------------------------------------------------------------------
(* The chat page (part_001, Home) and its input composer (part_002) *)

\* most questions submitted and most sessions opened from the list
MaxSubmits == 3
MaxLoads == 1

\* a composer that submits whether or not it is disabled
ComposerAcceptsAlways(isDisabled) == TRUE

\* part_002 54-60: InputComposer.handleSubmit returns when isDisabled
ComposerAccepts(isDisabled) == ~isDisabled

\* the page after mount: nothing in flight, no session or the last active
\* one (part_001 344-359)
InitPage ==
    /\ page \in { [isLoading |-> FALSE, sessionId |-> sid, stored |-> sid,
                   newChat |-> FALSE, lastOutcome |-> "none"] :
                     sid \in {NoSession, ExistingSession} }
    /\ net = [chat |-> {}, load |-> {}, sent |-> << >>, loads |-> 0]
    /\ fn = "page"
    /\ arg = NoArg
    /\ result = NotApplied
    /\ reqs = << >>
    /\ now = 0
    /\ body = CHOOSE b \in Bodies : ~b.json
    /\ openai = FALSE
    /\ pc = "Done"
    /\ question = << >>
    /\ client = FALSE
    /\ poolCheckedOut = 0
    /\ released = 0
    /\ sessions = {ExistingSession}
    /\ titles = InitialTitles
    /\ messages = << >>
    /\ links = {}
    /\ sessionId = NoSession
    /\ questionEmbedding = << >>
    /\ queryVector = << >>
    /\ rows = << >>
    /\ topRankedHybrid = << >>
    /\ topRanked = << >>
    /\ citations = << >>
    /\ answer = NoAnswer
    /\ usedLlm = FALSE
    /\ response = NoResponse
    /\ calls = NoCalls
    /\ failedAt = ""
    /\ embedReply = NoEmbedReply
    /\ rerankOutcome = "none"
    /\ trace = << >>
    /\ inFlight = {}

\* everything the page does not hold: the handler's state but the sessions
\* of the backend
pageFrame ==
    << fnVars, serverVars, body, openai, pc, question, poolVars, titles, messages,
       links, sessionId, pipelineVars, response, calls, failedAt, trace,
       inFlight >>

\* part_002 54-60 and part_001 361-385: the composer hands the question to
\* handleSubmit, which sets the loading flag and sends the request with the
\* sessionId of the render it was created in
PageSubmit ==
    /\ ComposerAccepts(page.isLoading)
    /\ Len(net.sent) < MaxSubmits
    /\ page' = [page EXCEPT !.isLoading = TRUE, !.newChat = FALSE]
    /\ net' = [net EXCEPT
                 !.chat = @ \cup { [n |-> Len(net.sent) + 1,
                                    sent |-> page.sessionId,
                                    closure |-> page.sessionId] },
                 !.sent = Append(@, [sessionId |-> page.sessionId,
                                     afterNewChat |-> page.newChat])]
    /\ UNCHANGED << sessions, pageFrame >>

\* part_001 422-445 and 454-456: the response is ok; route.ts 326-367 has
\* resolved the session
ChatOk ==
    \E r \in net.chat :
        LET kept == r.sent # NoSession /\ r.sent \in sessions
            dataSessionId == IF kept THEN r.sent ELSE NewId(sessions)
            sets == r.closure = NoSession \/ r.closure # dataSessionId
        IN  /\ sessions' = sessions \cup {dataSessionId}
            /\ page' = [page EXCEPT
                          !.isLoading = FALSE,
                          !.sessionId = IF sets THEN dataSessionId ELSE @,
                          !.stored = IF sets THEN dataSessionId ELSE @,
                          !.lastOutcome = "ok"]
            /\ net' = [net EXCEPT !.chat = @ \ {r}]
            /\ UNCHANGED pageFrame

\* part_001 387-419 and 454-456: the response is an HTTP error; the backend
\* may have created a session before it failed
ChatHttpError ==
    \E r \in net.chat, created \in BOOLEAN :
        /\ created => (r.sent = NoSession \/ r.sent \notin sessions)
        /\ sessions' = IF created THEN sessions \cup {NewId(sessions)} ELSE sessions
        /\ page' = [page EXCEPT !.isLoading = FALSE, !.lastOutcome = "http error"]
        /\ net' = [net EXCEPT !.chat = @ \ {r}]
        /\ UNCHANGED pageFrame

\* part_001 442-456: fetch rejects
ChatNetworkError ==
    \E r \in net.chat :
        /\ page' = [page EXCEPT !.isLoading = FALSE, !.lastOutcome = "network error"]
        /\ net' = [net EXCEPT !.chat = @ \ {r}]
        /\ UNCHANGED << sessions, pageFrame >>

\* part_001 620-635: the New Chat button
NewChatClick ==
    /\ page' = [page EXCEPT !.sessionId = NoSession, !.stored = NoSession,
                            !.newChat = TRUE]
    /\ UNCHANGED << net, sessions, pageFrame >>

\* part_001 582 and 288-290: a session of the list is clicked, its history
\* is requested
LoadSessionClick ==
    /\ net.loads < MaxLoads
    /\ \E id \in sessions :
          net' = [net EXCEPT !.load = @ \cup {[id |-> id]}, !.loads = @ + 1]
    /\ page' = [page EXCEPT !.newChat = FALSE]
    /\ UNCHANGED << sessions, pageFrame >>

\* part_001 291-319: the history arrives, or the request fails
LoadSessionDone ==
    \E l \in net.load, ok \in BOOLEAN :
        /\ net' = [net EXCEPT !.load = @ \ {l}]
        /\ page' = IF ok
                   THEN [page EXCEPT !.sessionId = l.id, !.stored = l.id,
                                     !.newChat = FALSE]
                   ELSE page
        /\ UNCHANGED << sessions, pageFrame >>

NextPage ==
    \/ PageSubmit
    \/ ChatOk
    \/ ChatHttpError
    \/ ChatNetworkError
    \/ NewChatClick
    \/ LoadSessionClick
    \/ LoadSessionDone

SpecPage == InitPage /\ [][NextPage]_vars

-----------------------------------------------------------------------------
(* Concurrent chat requests, DELETE /api/sessions and GET /api/session
   against one store *)

\* chat requests in progress at once, and the last tick of the clock
MaxReqs == 2
MaxClock == 2

ReqIds == 1..MaxReqs

\* uuid defaultRandom: ids no row has or ever had
FreshSessionId(r) == UnknownSession + r
UserMessageId(r) == 2 * r - 1
AssistantMessageId(r) == 2 * r

\* the chunk a stored answer cites
CitedChunk == 1

StoredMessageIds == { messages[i].id : i \in 1..Len(messages) }

InitStore ==
    /\ reqs \in [ReqIds ->
                   { [pc |-> "Session",
                      body |-> [sessionId |-> sid, newSession |-> FALSE],
                      sessionId |-> NoSession, cites |-> {}, createdAt |-> 0,
                      status |-> 0, fk |-> FALSE] :
                        sid \in {NoSession, ExistingSession, UnknownSession} }]
    /\ now = 1
    /\ sessions = {ExistingSession}
    /\ titles = InitialTitles
    /\ messages = << >>
    /\ links = {}
    /\ fn = "store"
    /\ arg = NoArg
    /\ result = NotApplied
    /\ page = NoPage
    /\ net = NoNet
    /\ body = CHOOSE b \in Bodies : ~b.json
    /\ openai = FALSE
    /\ pc = "Done"
    /\ question = << >>
    /\ client = FALSE
    /\ poolCheckedOut = 0
    /\ released = 0
    /\ sessionId = NoSession
    /\ questionEmbedding = << >>
    /\ queryVector = << >>
    /\ rows = << >>
    /\ topRankedHybrid = << >>
    /\ topRanked = << >>
    /\ citations = << >>
    /\ answer = NoAnswer
    /\ usedLlm = FALSE
    /\ response = NoResponse
    /\ calls = NoCalls
    /\ failedAt = ""
    /\ embedReply = NoEmbedReply
    /\ rerankOutcome = "none"
    /\ trace = << >>
    /\ inFlight = {}

\* what the store and its requests do not hold
storeFrame ==
    << fn, arg, pageVars, body, openai, pc, question, poolVars, sessionId,
       pipelineVars, response, calls, failedAt, trace, inFlight >>

\* the request ends with this status
Ends(r, status, fk) ==
    reqs' = [reqs EXCEPT ![r].pc = "Done", ![r].status = status, ![r].fk = fk]

\* route.ts 455 and 326-367: getOrCreateSessionId, its select and its insert
\* in one step
ReqSession(r) ==
    /\ reqs[r].pc = "Session"
    /\ LET b == reqs[r].body
           found == IF CreatesWithoutLookup(b) THEN {}
                    ELSE {x \in sessions : x = b.sessionId}
           inserts == CreatesWithoutLookup(b) \/ SessionMissing(found)
           fresh == FreshSessionId(r)
       IN  /\ sessions' = IF inserts THEN sessions \cup {fresh} ELSE sessions
           /\ titles' = IF inserts
                        THEN titles \cup {[id |-> fresh, title |-> DefaultTitle]}
                        ELSE titles
           /\ reqs' = [reqs EXCEPT
                         ![r].pc = "Pipeline",
                         ![r].sessionId = IF inserts THEN fresh ELSE b.sessionId]
    /\ UNCHANGED << messages, links, result, now, storeFrame >>

\* route.ts 457-512: embedding to synthesis; nothing of the store is written.
\* The request answers with or without citations, finds no candidate, or
\* throws
ReqPipeline(r) ==
    /\ reqs[r].pc = "Pipeline"
    /\ \/ \E c \in SUBSET {CitedChunk} :
             reqs' = [reqs EXCEPT ![r].pc = "PersistUser", ![r].cites = c]
       \/ Ends(r, 404, FALSE)
       \/ Ends(r, 500, FALSE)
    /\ UNCHANGED << storeVars, result, now, storeFrame >>

\* route.ts 376-387: now = new Date(), then the user message; the insert is
\* rejected when its session is gone (part_003 63-65)
ReqPersistUser(r) ==
    /\ reqs[r].pc = "PersistUser"
    /\ IF reqs[r].sessionId \in sessions
       THEN /\ messages' = Append(messages,
                  [id |-> UserMessageId(r), sessionId |-> reqs[r].sessionId,
                   role |-> "user", content |-> r, createdAt |-> now])
            /\ reqs' = [reqs EXCEPT ![r].pc = "PersistAssistant",
                                    ![r].createdAt = now]
       ELSE /\ Ends(r, 500, TRUE)
            /\ UNCHANGED messages
    /\ UNCHANGED << sessions, titles, links, result, now, storeFrame >>

\* route.ts 389-398: the assistant message, with the same createdAt
ReqPersistAssistant(r) ==
    /\ reqs[r].pc = "PersistAssistant"
    /\ IF reqs[r].sessionId \in sessions
       THEN /\ messages' = Append(messages,
                  [id |-> AssistantMessageId(r), sessionId |-> reqs[r].sessionId,
                   role |-> "assistant", content |-> r,
                   createdAt |-> reqs[r].createdAt])
            /\ reqs' = [reqs EXCEPT ![r].pc = "PersistLinks"]
       ELSE /\ Ends(r, 500, TRUE)
            /\ UNCHANGED messages
    /\ UNCHANGED << sessions, titles, links, result, now, storeFrame >>

\* route.ts 400-408: the citation links; the insert is rejected when the
\* assistant message is gone (part_003 74-76)
ReqPersistLinks(r) ==
    /\ reqs[r].pc = "PersistLinks"
    /\ IF reqs[r].cites = {}
       THEN /\ reqs' = [reqs EXCEPT ![r].pc = "PersistTouch"]
            /\ UNCHANGED links
       ELSE IF AssistantMessageId(r) \in StoredMessageIds
       THEN /\ links' = links \cup
                  { [messageId |-> AssistantMessageId(r), chunkId |-> c] :
                      c \in reqs[r].cites }
            /\ reqs' = [reqs EXCEPT ![r].pc = "PersistTouch"]
       ELSE /\ Ends(r, 500, TRUE)
            /\ UNCHANGED links
    /\ UNCHANGED << sessions, titles, messages, result, now, storeFrame >>

\* route.ts 410-414 and 523-540: the update of updatedAt matches the session
\* row or no row, then the handler responds
ReqPersistTouch(r) ==
    /\ reqs[r].pc = "PersistTouch"
    /\ Ends(r, 200, FALSE)
    /\ UNCHANGED << storeVars, result, now, storeFrame >>

\* a delete that leaves the rows of the deleted sessions in place
MessagesKept(gone) == messages
LinksKept(gone) == links

\* part_003 63-65: messages.session_id references chat_sessions ON DELETE
\* cascade
MessagesAfterDelete(gone) ==
    SelectSeq(messages, LAMBDA m : m.sessionId \notin gone)

\* part_003 74-76: message_citations.message_id references messages ON
\* DELETE cascade
LinksAfterDelete(gone) ==
    LET goneMessages == { messages[i].id : i \in
                            { j \in 1..Len(messages) : messages[j].sessionId \in gone } }
    IN  { l \in links : l.messageId \notin goneMessages }

DeleteRows(gone) ==
    /\ sessions' = sessions \ gone
    /\ titles' = { t \in titles : t.id \notin gone }
    /\ messages' = MessagesAfterDelete(gone)
    /\ links' = LinksAfterDelete(gone)
    /\ UNCHANGED << reqs, result, now, storeFrame >>

\* sessions/route.ts 36-38: DELETE /api/sessions?sessionId=
DeleteSession ==
    \E sid \in sessions : DeleteRows({sid})

\* sessions/route.ts 39-40: DELETE /api/sessions
DeleteAllSessions ==
    /\ sessions # {}
    /\ DeleteRows(sessions)

\* part_000 35-53 and 97-99: the rows of a session ordered by createdAt
\* alone; rows with equal createdAt come in any order, and the stable sort
\* of the handler keeps the order of the query
HistoryOrders(sid) ==
    LET idx == { i \in 1..Len(messages) : messages[i].sessionId = sid }
        n == Cardinality(idx)
    IN  { [k \in 1..n |-> messages[f[k]]] :
            f \in { g \in [1..n -> idx] :
                      /\ \A i, j \in 1..n : i # j => g[i] # g[j]
                      /\ \A i, j \in 1..n :
                            i < j => messages[g[i]].createdAt <= messages[g[j]].createdAt } }

\* part_000 25-101: GET /api/session?sessionId=
GetHistory ==
    /\ \E sid \in sessions :
          \E h \in HistoryOrders(sid) :
              result' = [applied |-> TRUE, value |-> h]
    /\ UNCHANGED << storeVars, reqs, now, storeFrame >>

\* the clock of the server moves on
Tick ==
    /\ now < MaxClock
    /\ now' = now + 1
    /\ UNCHANGED << storeVars, reqs, result, storeFrame >>

NextStore ==
    \/ \E r \in ReqIds : ReqSession(r)
    \/ \E r \in ReqIds : ReqPipeline(r)
    \/ \E r \in ReqIds : ReqPersistUser(r)
    \/ \E r \in ReqIds : ReqPersistAssistant(r)
    \/ \E r \in ReqIds : ReqPersistLinks(r)
    \/ \E r \in ReqIds : ReqPersistTouch(r)
    \/ DeleteSession
    \/ DeleteAllSessions
    \/ GetHistory
    \/ Tick

SpecStore == InitStore /\ [][NextStore]_vars

-----------------------------------------------------------------------------
(* Properties *)

InTrace(step) == \E i \in 1..Len(trace) : trace[i] = step

IsPrefix(s, t) == Len(s) <= Len(t) /\ \A i \in 1..Len(s) : s[i] = t[i]

Stages ==
    {"Validate", "Embed", "Retrieve", "Rank", "Rerank", "Synthesize",
     "BuildCitations", "Persist", "Respond"}

IsStage(step) == step \in Stages

\* the pipeline stages run so far, without the handler's other steps
StageTrace == SelectSeq(trace, IsStage)

StatedOrder ==
    << "Validate", "Embed", "Retrieve", "Rank", "Rerank", "Synthesize",
       "BuildCitations", "Persist", "Respond" >>

CodeOrder ==
    << "Validate", "Embed", "Retrieve", "Rank", "Rerank", "BuildCitations",
       "Synthesize", "Persist", "Respond" >>

PassesValidation(b) ==
    /\ b.json
    /\ b.qtype = "string"
    /\ StrLen(Trim(b.q)) >= 1
    /\ StrLen(Trim(b.q)) <= 2000

\* C2: a request that fails validation is rejected with no work performed:
\* no connection is checked out, no session is looked up or created, and no
\* embedding, retrieval or generative-model call is issued.
C2_RejectedNoWork ==
    (pc # "Validate" /\ ~PassesValidation(body)) =>
        /\ pc = "Done"
        /\ response.status = 400
        /\ calls = NoCalls
        /\ ~client /\ poolCheckedOut = 0 /\ released = 0
        /\ sessions = {ExistingSession} /\ messages = << >> /\ links = {}
        /\ trace = << "Validate" >>

C2_Witness ==
    /\ pc = "Done"
    /\ body.qtype = "string"
    /\ StrLen(Trim(body.q)) = 2001
    /\ response = ErrorResponse(400, "Question is too long")

\* C3: a request passes validation if and only if its body parses and
\* question is a string of trimmed length 1..2000; the limit applies to the
\* trimmed text, and a missing or non-string question is rejected as empty.
C3_ValidIff ==
    pc # "Validate" =>
        /\ (response.status = 400) <=> ~PassesValidation(body)
        /\ (pc = "Connect") => (PassesValidation(body) /\ question = Trim(body.q))
        /\ (body.json /\ body.qtype # "string") =>
               response = ErrorResponse(400, "Question is required")
        /\ ~body.json => response = ErrorResponse(400, "Invalid JSON body")

C3_Witness ==
    /\ pc = "Connect"
    /\ StrLen(body.q) > 2000
    /\ StrLen(question) = 2000

\* C4: when retrieval returns zero candidates the request ends with the
\* NoCandidates outcome, not the generic failure, and ranking, re-ranking,
\* synthesis, citation building and message persistence never run.
C4_NoCandidates ==
    (InTrace("Retrieve") /\ failedAt # "Retrieve" /\ Len(rows) = 0) =>
        /\ response = NoCandidatesResponse
        /\ response # TryAgainResponse
        /\ pc \in {"Finally", "Done"}
        /\ \A st \in {"Rank", "Rerank", "Synthesize", "BuildCitations", "Persist"} :
              ~InTrace(st)
        /\ calls.llm = 0 /\ calls.write = 0
        /\ messages = << >> /\ links = {}

C4_Witness ==
    /\ pc = "Done"
    /\ InTrace("Retrieve")
    /\ Len(rows) = 0
    /\ response = NoCandidatesResponse

DegradedOutcomes == {"throws", "text", "object", "unusable"}

\* C5: whatever the re-rank call does (throws, unparseable reply, reply that
\* is not a list, list with no usable entry), the request does not fail
\* there: it goes on to Synthesize and every candidate's rerankScore equals
\* its hybridScore.
C5_RerankDegrades ==
    rerankOutcome \in DegradedOutcomes =>
        /\ failedAt # "Rerank"
        /\ Len(topRanked) = Len(topRankedHybrid)
        /\ \A i \in 1..Len(topRanked) :
              topRanked[i].rerankScore = topRanked[i].hybridScore
        /\ pc \in {"BuildCitations", "Synthesize", "SynthesizeWait"}
              \/ InTrace("Synthesize")

C5_Witness ==
    /\ rerankOutcome = "text"
    /\ pc = "Done"
    /\ response.status = 200
    /\ Len(topRanked) = TopN

\* C6 as stated: every failure after validation other than a re-rank
\* failure ends the request with the generic try-again error and no answer.
C6_EveryFailureTryAgain ==
    (pc = "Done" /\ failedAt # "") => response = TryAgainResponse

PersistSteps == {"PersistUser", "PersistAssistant", "PersistLinks", "PersistTouch"}

\* C7 as stated: when a write to the session store fails after the answer
\* has been computed, the request still responds with the answer and its
\* citations.
C7_AnswerKept ==
    (pc = "Done" /\ failedAt \in PersistSteps) =>
        /\ response.status = 200
        /\ response.answer = answer
        /\ response.citations = citations

\* C7 amended: when a write to the session store fails after the answer has
\* been computed, the request ends with the generic try-again error; the
\* computed answer and citations are not part of the response.
C7_AnswerDiscarded ==
    (pc \in {"Finally", "Done"} /\ failedAt \in PersistSteps) =>
        /\ answer # NoAnswer
        /\ Len(citations) > 0
        /\ response = TryAgainResponse
        /\ response.answer = NoAnswer
        /\ response.citations = << >>

C7_Witness ==
    /\ pc = "Done"
    /\ failedAt = "PersistLinks"
    /\ answer = GeneratedText
    /\ response = TryAgainResponse

\* C8: a connection checked out from the pool is released exactly once on
\* every exit path, a finished request holds none, and a request rejected
\* by validation never holds one.
C8_ReleasedOnce ==
    /\ poolCheckedOut = (IF client THEN 1 ELSE 0)
    /\ released <= 1
    /\ client => released = 0
    /\ pc = "Done" =>
          /\ ~client
          /\ released = (IF InTrace("Connect") /\ failedAt # "Connect" THEN 1 ELSE 0)
    /\ response.status = 400 => (calls.pool = 0 /\ released = 0 /\ ~client)

C8_Witness ==
    /\ pc = "Done"
    /\ failedAt = "PersistTouch"
    /\ released = 1
    /\ poolCheckedOut = 0

\* C9: the embedding service is called once per request that reaches the
\* Embed stage and never again; on 429 or 402 the request goes on to
\* Retrieve with the local fallback vector; on any other failure status it
\* fails with no retrieval and no generative-model call.
C9_EmbedOnce ==
    /\ calls.embed = (IF InTrace("Embed") \/ pc = "EmbedWait" THEN 1 ELSE 0)
    /\ embedReply.status \in {429, 402} =>
          /\ failedAt # "Embed"
          /\ questionEmbedding = generateLocalEmbedding(question)
          /\ pc = "Retrieve" \/
               (calls.retrieve = 1 /\ queryVector = generateLocalEmbedding(question))
    /\ (embedReply.status >= 0 /\ ~ResOk(embedReply.status)
          /\ embedReply.status \notin {429, 402}) =>
          /\ failedAt = "Embed"
          /\ calls.retrieve = 0
          /\ calls.llm = 0
          /\ pc \in {"Catch", "Finally", "Done"}
          /\ pc = "Done" => response = TryAgainResponse

C9_Witness ==
    /\ embedReply.status = 402
    /\ calls.embed = 1
    /\ calls.retrieve = 1
    /\ queryVector = generateLocalEmbedding(question)
    /\ response.status = 200

\* C10: every vector handed to the retriever has exactly EMBEDDING_DIMENSIONS elements, on
\* the service path and on the fallback path; a longer service vector is cut
\* to its first EMBEDDING_DIMENSIONS elements, a shorter one keeps its elements and is
\* extended with zeros, one of length EMBEDDING_DIMENSIONS is unchanged.
C10_ExactDimension ==
    /\ pc = "Retrieve" => Len(questionEmbedding) = EMBEDDING_DIMENSIONS
    /\ calls.retrieve > 0 => (Len(queryVector) = EMBEDDING_DIMENSIONS /\ queryVector = questionEmbedding)
    /\ (embedReply.status = 200 /\ embedReply.data = "vector") =>
          LET raw == ServiceVector(embedReply.len)
              n == embedReply.len
          IN  /\ failedAt # "Embed"
              /\ Len(questionEmbedding) = EMBEDDING_DIMENSIONS
              /\ \A i \in 1..EMBEDDING_DIMENSIONS :
                    questionEmbedding[i] = (IF i <= n THEN raw[i] ELSE 0)

C10_Witness ==
    /\ embedReply.status = 200
    /\ embedReply.len = EMBEDDING_DIMENSIONS - 1
    /\ calls.retrieve = 1
    /\ Len(queryVector) = EMBEDDING_DIMENSIONS
    /\ queryVector[EMBEDDING_DIMENSIONS] = 0

\* the fields a candidate has before the re-ranker adds rerankScore
HybridFields(c) ==
    [id |-> c.id, distance |-> c.distance, content |-> c.content,
     title |-> c.title, slug |-> c.slug, hybridScore |-> c.hybridScore,
     bm25Score |-> c.bm25Score, bm25Norm |-> c.bm25Norm, vecSim |-> c.vecSim]

\* t is s with its elements in another order: the two have the same length
\* and every element of s occurs as often in t as in s
IsPermutation(s, t) ==
    /\ Len(s) = Len(t)
    /\ \A i \in 1..Len(s) :
          Cardinality({ j \in 1..Len(s) : s[j] = s[i] })
              = Cardinality({ j \in 1..Len(t) : t[j] = s[i] })

\* C14: the final candidate list, the one synthesis and citations use, is a
\* permutation of the top-5 hybrid-ranked candidates (hybridScore and every
\* other field retained) in non-increasing order of effective score: the
\* rerankScore, which is the hybridScore where the re-ranker gave none.
C14_FinalOrder ==
    InTrace("Rerank") =>
        /\ pc = "BuildCitations" =>
              topRankedHybrid = Slice(hybridRank(question, rows, Alpha), TopN)
        /\ Len(topRanked) <= 5
        /\ IsPermutation(topRankedHybrid,
                         [i \in 1..Len(topRanked) |-> HybridFields(topRanked[i])])
        /\ \A i, j \in 1..Len(topRanked) :
              i < j => ~RatLess(topRanked[i].rerankScore, topRanked[j].rerankScore)
        /\ InTrace("BuildCitations") => citations = buildCitations(topRanked)
        /\ (InTrace("Synthesize") /\ answer # NoAnswer) =>
              answer = askLlmWithContext(openai, topRanked).answer

C14_Witness ==
    /\ response.status = 200
    /\ rerankOutcome = "scored"
    /\ Len(topRanked) = 5
    /\ Len(rows) = MaxRows
    /\ topRanked[1].id # topRankedHybrid[1].id
    /\ \E i \in 1..5 : topRanked[i].rerankScore = topRanked[i].hybridScore

\* C15: the citations of a response are the element-wise image of the final
\* ranked list: as many citations as candidates (1 to 5 on a successful
\* response), citation i with the id, url, title and excerpt of candidate i
\* and its effective score as relevanceScore; chunks of one document are
\* cited one by one.
C15_CitationsImage ==
    response.status = 200 =>
        /\ Len(response.citations) = Len(topRanked)
        /\ Len(response.citations) \in 1..5
        /\ \A i \in 1..Len(topRanked) :
              /\ response.citations[i].id = topRanked[i].id
              /\ response.citations[i].relevanceScore = topRanked[i].rerankScore
              /\ response.citations[i].mdnUrl = MdnUrl(topRanked[i].slug)
              /\ response.citations[i].articleTitle = topRanked[i].title
              /\ response.citations[i].excerpt = Snippet(topRanked[i].content)
              /\ response.citations[i].trustLevel = "direct"

C15_Witness ==
    /\ response.status = 200
    /\ Len(response.citations) = 5
    /\ \E i, j \in 1..5 :
          /\ i # j
          /\ response.citations[i].mdnUrl = response.citations[j].mdnUrl
          /\ response.citations[i].id # response.citations[j].id

\* C16: with no generative capability configured a request issues no
\* generative-model call; the re-ranker gives the candidates back in the
\* same order with rerankScore equal to hybridScore, and the answer is the
\* content of the first candidate of the final list, flagged not generated.
C16_NoGenerativeCapability ==
    ~openai =>
        /\ calls.llm = 0
        /\ InTrace("Rerank") =>
              /\ rerankOutcome = "skipped"
              /\ Len(topRanked) = Len(topRankedHybrid)
              /\ \A i \in 1..Len(topRanked) :
                    /\ HybridFields(topRanked[i]) = topRankedHybrid[i]
                    /\ topRanked[i].rerankScore = topRankedHybrid[i].hybridScore
        /\ answer # NoAnswer =>
              /\ answer = ChunkText(topRanked[1].content)
              /\ ~usedLlm
        /\ response.status = 200 => response.answer = ChunkText(topRanked[1].content)

C16_Witness ==
    /\ ~openai
    /\ response.status = 200
    /\ Len(topRanked) = 5
    /\ response.answer = ChunkText(topRanked[1].content)
    /\ calls.llm = 0

\* C18 as stated: the citations read back from the session history for the
\* assistant message of a request are equal, field by field (id, url,
\* articleTitle, excerpt, trustLevel, relevanceScore), to the citations of
\* the response that produced the message.
C18_HistoryEqualsResponse ==
    (pc = "Done" /\ response.status = 200) =>
        HistoryCitations(messages[Len(messages)].id)
            = { response.citations[i] : i \in 1..Len(response.citations) }

WaitingFor ==
    [EmbedWait |-> "embed", RetrieveWait |-> "retrieve",
     RerankWait |-> "rerank", SynthesizeWait |-> "synthesize"]

\* C17: one request issues at most one embedding call, at most one
\* retrieval query and at most two generative-model calls, and its external
\* calls are strictly sequential: at most one is in flight at any time, and
\* while one is in flight the handler does nothing but wait for it.
C17_SequentialCalls ==
    /\ calls.embed <= 1
    /\ calls.retrieve <= 1
    /\ calls.llm <= 2
    /\ Cardinality(inFlight) <= 1
    /\ IF pc \in DOMAIN WaitingFor
       THEN inFlight = {WaitingFor[pc]}
       ELSE inFlight = {}

C17_Witness ==
    /\ pc = "SynthesizeWait"
    /\ inFlight = {"synthesize"}
    /\ calls.embed = 1
    /\ calls.retrieve = 1
    /\ calls.llm = 2

-----------------------------------------------------------------------------
(* Properties of the ranker, the re-ranker and the reply parser *)

Ranked == fn = "hybridRank" /\ result.applied

\* the candidate of the input that has the id of c
InputOf(c) == arg.chunks[CHOOSE i \in 1..Len(arg.chunks) : arg.chunks[i].id = c.id]

\* C11: for every candidate list, query and alpha, hybridRank returns a
\* permutation of the input candidates (same length, same multiset of ids,
\* every candidate with the fields it came with) in non-increasing order of
\* hybridScore.
C11_RankPermutation ==
    Ranked =>
        /\ Len(result.value) = Len(arg.chunks)
        /\ IsPermutation([i \in 1..Len(arg.chunks) |-> arg.chunks[i].id],
                         [i \in 1..Len(result.value) |-> result.value[i].id])
        /\ \A i \in 1..Len(result.value) :
              /\ result.value[i].distance = InputOf(result.value[i]).distance
              /\ result.value[i].content = InputOf(result.value[i]).content
              /\ result.value[i].slug = InputOf(result.value[i]).slug
              /\ result.value[i].bm25Score = InputOf(result.value[i]).lex
        /\ \A i, j \in 1..Len(result.value) :
              i < j => ~RatLess(result.value[i].hybridScore,
                                result.value[j].hybridScore)

C11_Witness ==
    /\ Ranked
    /\ Len(arg.chunks) = MaxCands
    /\ result.value[1].id = MaxCands
    /\ RatLess(result.value[MaxCands].hybridScore, result.value[1].hybridScore)

\* C12: hybridRank is stable: two candidates with equal hybridScore come
\* out in the relative order they had in the input (a candidate's id is its
\* place in the input).
C12_RankStable ==
    Ranked =>
        \A i, j \in 1..Len(result.value) :
            (i < j /\ result.value[i].hybridScore = result.value[j].hybridScore)
                => result.value[i].id < result.value[j].id

C12_Witness ==
    /\ Ranked
    /\ Len(arg.chunks) = 3
    /\ result.value[1].id = 2
    /\ result.value[2].id = 3
    /\ result.value[1].hybridScore = result.value[2].hybridScore
    /\ arg.chunks[2].distance # arg.chunks[3].distance

\* two candidates, exactly one of them with a positive BM25 score
OneLexicalOfTwo ==
    /\ Ranked
    /\ Len(arg.chunks) = 2
    /\ (arg.chunks[1].lex > 0) # (arg.chunks[2].lex > 0)

LexicalPlace == IF arg.chunks[1].lex > 0 THEN 1 ELSE 2

\* C13 as stated: of two candidates of which exactly one matches the query
\* lexically, the matching one is ranked first for every alpha with
\* 0.5 <= alpha <= 1, every pair of distances and either retrieval order.
C13_LexicalFirstFromHalf ==
    (OneLexicalOfTwo /\ ~RatLess(arg.alpha, Rat(1, 2))) =>
        result.value[1].bm25Score > 0

\* C13 amended: the matching candidate is ranked first for every alpha with
\* 0.5 < alpha <= 1, every pair of distances and either retrieval order; at
\* alpha = 0.5 it is ranked first unless it is the farther of the two and
\* second in retrieval order: then both score 0.5 and the other one stays
\* first.
C13_LexicalFirstAboveHalf ==
    OneLexicalOfTwo =>
        /\ RatLess(Rat(1, 2), arg.alpha) => result.value[1].bm25Score > 0
        /\ arg.alpha = Rat(1, 2) =>
              ((result.value[1].bm25Score > 0) <=>
                  ~(/\ LexicalPlace = 2
                    /\ arg.chunks[2].distance > arg.chunks[1].distance))

C13_Witness ==
    /\ OneLexicalOfTwo
    /\ arg.alpha = Rat(3, 5)
    /\ LexicalPlace = 2
    /\ arg.chunks[2].distance > arg.chunks[1].distance
    /\ result.value[1].id = 2

Reranked == fn = "rerankWithLlm" /\ result.applied

\* the entries of the reply that the loop of route.ts 238-242 stores
UsableItems(items) ==
    { i \in 1..Len(items) : items[i].idIsString /\ items[i].scoreIsNumber }

\* C19: when the reply yields at least one usable score, a candidate whose
\* id is in the parsed list gets the (last) score listed for it as
\* rerankScore, a candidate whose id is absent gets its own hybridScore,
\* ids of the reply that match no candidate change nothing, and the
\* candidates, their order and their hybridScore are as they were.
C19_PerItemScores ==
    (/\ Reranked
     /\ arg.configured
     /\ arg.reply.kind = "list"
     /\ UsableItems(arg.reply.items) # {}) =>
        /\ Len(result.value) = Len(arg.candidates)
        /\ \A i \in 1..Len(arg.candidates) :
              LET mine == { k \in UsableItems(arg.reply.items) :
                              arg.reply.items[k].id = arg.candidates[i].id }
              IN  /\ HybridFields(result.value[i]) = arg.candidates[i]
                  /\ mine = {} =>
                        result.value[i].rerankScore = arg.candidates[i].hybridScore
                  /\ mine # {} =>
                        \E k \in mine :
                            /\ \A m \in mine : m <= k
                            /\ result.value[i].rerankScore = arg.reply.items[k].score

C19_Witness ==
    /\ Reranked
    /\ arg.configured
    /\ arg.reply.kind = "list"
    /\ Len(arg.candidates) = 5
    /\ \E k \in UsableItems(arg.reply.items) : arg.reply.items[k].id = UnknownChunk
    /\ \E k \in UsableItems(arg.reply.items) :
          /\ arg.reply.items[k].id = arg.candidates[5].id
          /\ result.value[5].rerankScore = arg.reply.items[k].score
          /\ result.value[5].rerankScore # arg.candidates[5].hybridScore
    /\ result.value[1].rerankScore = arg.candidates[1].hybridScore

\* the first syntactically balanced array substring of a text
HasBalanced(text) ==
    \E i, j \in 1..Len(text) : i < j /\ IsBalancedArray(SubSeq(text, i, j))

FirstBalanced(text) ==
    LET i == CHOOSE a \in 1..Len(text) :
                /\ \E j \in 1..Len(text) : a < j /\ IsBalancedArray(SubSeq(text, a, j))
                /\ \A b \in 1..(a - 1) :
                      ~\E j \in 1..Len(text) : b < j /\ IsBalancedArray(SubSeq(text, b, j))
        j == CHOOSE a \in 1..Len(text) : i < a /\ IsBalancedArray(SubSeq(text, i, a))
    IN  SubSeq(text, i, j)

\* a list of one or more {id, score} objects and nothing else
IsScoreList(s) ==
    /\ IsJsonArray(s)
    /\ Len(s) >= 3
    /\ \A i \in 2..(Len(s) - 1) : s[i] = "o"

\* C20 as stated: the re-ranker parses the first syntactically balanced
\* array substring of the reply: when that substring is a valid list of
\* {id, score} objects, the parse yields those objects whatever text,
\* brackets included, comes before or after it.
C20_FirstBalancedParsed ==
    (/\ fn = "parseReply"
     /\ result.applied
     /\ HasBalanced(arg.text)
     /\ IsScoreList(FirstBalanced(arg.text))) =>
        result.value = [kind |-> "list",
                        objects |-> Len(FirstBalanced(arg.text)) - 2]

Normalized == fn = "normalize" /\ result.applied

RatZero == Rat(0, 1)

NoLexicalOverlap ==
    \A i \in 1..Len(arg.docs) : TermsOf(arg.query) \cap TermsOf(arg.docs[i]) = {}

\* C22: with alpha = 1 and a query that shares no token with the title,
\* heading or content of any candidate, every candidate gets the same
\* hybridScore and hybridRank returns the candidates in their input order.
C22_NoOverlapKeepsOrder ==
    (/\ fn = "hybridRankOfTexts"
     /\ result.applied
     /\ arg.alpha = Rat(1, 1)
     /\ NoLexicalOverlap) =>
        /\ Len(result.value) = Len(arg.docs)
        /\ \A i \in 1..Len(result.value) :
              /\ result.value[i].id = i
              /\ result.value[i].bm25Score = 0
              /\ result.value[i].hybridScore = result.value[1].hybridScore

C22_Witness ==
    /\ fn = "hybridRankOfTexts"
    /\ result.applied
    /\ arg.alpha = Rat(1, 1)
    /\ NoLexicalOverlap
    /\ arg.query = << "flexbox" >>
    /\ Len(arg.docs) = MaxCands
    /\ arg.distances[1] > arg.distances[MaxCands]
    /\ result.value[1].id = 1
    /\ result.value[MaxCands].id = MaxCands

C24_LoadingGuardsSubmit ==
    /\ [](/\ Cardinality(net.chat) <= 1
          /\ page.isLoading <=> net.chat # {})
    /\ [][page.isLoading => net'.sent = net.sent]_vars

C24_Witness ==
    /\ page.isLoading
    /\ Cardinality(net.chat) = 1
    /\ Len(net.sent) = 3
    /\ page.lastOutcome = "network error"

\* C25 as stated: after a click on New Chat the next question is sent
\* without a sessionId, however the click interleaves with the completion
\* of a chat request that was in flight when the button was clicked.
C25_NewChatSendsNoSession ==
    \A i \in 1..Len(net.sent) :
        net.sent[i].afterNewChat => net.sent[i].sessionId = NoSession

\* C26 as stated: a request that ends in NoCandidates, or in Failed before
\* the Persist stage, leaves the store as it was: no session row, no
\* message, no citation link.
C26_EarlyEndLeavesStore ==
    (/\ pc = "Done"
     /\ \/ response = NoCandidatesResponse
        \/ (failedAt # "" /\ failedAt \notin PersistSteps))
    => /\ sessions = {ExistingSession}
       /\ messages = << >>
       /\ links = {}

\* C27 as stated: when a request has finished, whichever of the four writes
\* of the Persist stage failed if any, the log holds either the user message
\* and the assistant message with all its citation links, or none of them.
C27_PersistAllOrNothing ==
    pc = "Done" =>
        \/ messages = << >> /\ links = {}
        \/ /\ Len(messages) = 2
           /\ messages[1].role = "user"
           /\ messages[2].role = "assistant"
           /\ links = { [messageId |-> messages[2].id, chunkId |-> citations[i].id] :
                          i \in 1..Len(citations) }

\* the request names a session that is kept: an id was sent, newSession
\* was not set, and the store had the session at lookup time
KeepsSession(b) ==
    /\ b.sessionId # NoSession
    /\ ~b.newSession
    /\ b.sessionId = ExistingSession

\* C29: the sessionId of a successful response is the one sent if and only
\* if an id was sent, newSession was not set and a session with that id
\* existed at lookup time; in every other case exactly one session was
\* created, titled with the first 80 characters of the trimmed question, and
\* the response carries its id.
C29_SessionResolution ==
    (pc = "Done" /\ response.status = 200) =>
        /\ response.sessionId = body.sessionId <=> KeepsSession(body)
        /\ KeepsSession(body) =>
              /\ sessions = {ExistingSession}
              /\ titles = InitialTitles
        /\ ~KeepsSession(body) =>
              /\ response.sessionId # ExistingSession
              /\ sessions = {ExistingSession, response.sessionId}
              /\ titles = InitialTitles \cup
                    { [id |-> response.sessionId,
                       title |-> StrSlice(Trim(body.q), TITLE_LENGTH)] }
              /\ StrLen(StrSlice(Trim(body.q), TITLE_LENGTH)) =
                    (IF StrLen(Trim(body.q)) < TITLE_LENGTH
                     THEN StrLen(Trim(body.q)) ELSE TITLE_LENGTH)

\* a new session for a request that named an existing one and set
\* newSession, titled with a proper prefix of a question that has
\* whitespace to trim
C29_Witness ==
    /\ pc = "Done"
    /\ response.status = 200
    /\ body.sessionId = ExistingSession
    /\ body.newSession
    /\ response.sessionId \notin {ExistingSession, NoSession}
    /\ Trim(body.q) # body.q
    /\ StrLen(Trim(body.q)) > TITLE_LENGTH
    /\ \E t \in titles : t.id = response.sessionId /\ StrLen(t.title) = TITLE_LENGTH

\* C28 as stated: in the history GET /api/session returns, every assistant
\* answer comes immediately after the user question it answers, whatever
\* the number of exchanges and the interleaving of concurrent chat requests
\* to the session.
C28_AnswerFollowsQuestion ==
    result.applied =>
        \A i \in 1..Len(result.value) :
            result.value[i].role = "assistant" =>
                /\ i > 1
                /\ result.value[i - 1].role = "user"
                /\ result.value[i - 1].content = result.value[i].content

\* C30: under any interleaving of chat requests with DELETE /api/sessions,
\* every stored message belongs to an existing session and every citation
\* link to a stored message, and a chat request whose session was deleted
\* between its lookup and its Persist stage ends Failed and leaves no row.
C30_ReferentialIntegrity ==
    /\ \A i \in 1..Len(messages) : messages[i].sessionId \in sessions
    /\ \A l \in links : l.messageId \in StoredMessageIds
    /\ \A r \in ReqIds :
          (reqs[r].pc = "Done" /\ reqs[r].fk /\ reqs[r].createdAt = 0) =>
              /\ reqs[r].status = 500
              /\ reqs[r].sessionId \notin sessions
              /\ \A i \in 1..Len(messages) : messages[i].content # r
              /\ \A l \in links :
                    l.messageId \notin {UserMessageId(r), AssistantMessageId(r)}
    /\ \A r \in ReqIds :
          (reqs[r].pc = "PersistUser" /\ reqs[r].sessionId \notin sessions) =>
              /\ ENABLED ReqPersistUser(r)
              /\ \A i \in 1..Len(messages) : messages[i].content # r

\* one request lost its session before its Persist stage and failed, while
\* the exchange of the other one is stored with its citation link
C30_Witness ==
    /\ \E r \in ReqIds :
          /\ reqs[r].pc = "Done"
          /\ reqs[r].fk
          /\ reqs[r].createdAt = 0
          /\ reqs[r].status = 500
    /\ Len(messages) = 2
    /\ links # {}

====
